---------------------------- MODULE Spec2Model ----------------------------
(***************************************************************************)
(* Model of cutr (src/cutr/src/lib.rs): the range-list parser              *)
(* parse_position with its nom grammar (range_input, decimal), the         *)
(* conversion parsed_to_range / parse, the three extractors extract_bytes, *)
(* extract_chars and extract_fields, the delimiter parser, and the         *)
(* program itself: the command line read by get_args and the loop of run   *)
(* over the input files.                                                   *)
(*                                                                         *)
(* A string is a sequence of one-character strings: "1-3" is               *)
(* <<"1", "-", "3">>.  A Range<usize> is a record [start, end].            *)
(***************************************************************************)
EXTENDS Integers, Sequences, FiniteSets, TLC

VARIABLES
    input,    \* the option value handed to parse_position
    pc,       \* position of the run: "args", "grammar", "done", "extracted"
    rest,     \* the unconsumed input returned by separated_list0
    parsed,   \* the tokens recognised by separated_list0
    result,   \* the Result<PositionList, String> of parse_position
    mode,     \* which extractor ran: "none", "bytes", "chars", "fields"
    line,     \* the line (sequence of chars) or record (sequence of fields)
    out,      \* the extractor's output
    buf,      \* the extractor's buffer before it is turned into the output
    cli,      \* the command line: the options given and the number of files
    config,   \* the Config built by get_args
    fileIdx,  \* run: the index of the file of the current loop iteration
    nread,    \* run: the number of lines read so far, over all files
    nfields,  \* run: the field count the csv reader expects (0: not yet set)
    log       \* run: what happened so far, in order (opens, reads, writes)

parseVars == <<input, rest, parsed, result, mode, line, out, buf>>

runVars == <<cli, config, fileIdx, nread, nfields, log>>

vars == <<input, pc, rest, parsed, result, mode, line, out, buf,
          cli, config, fileIdx, nread, nfields, log>>

----------------------------------------------------------------------------
(* Bounds of the model.                                                    *)

\* Longest option value that Init enumerates exhaustively.
MaxLen == 5

\* Longest option value of the extraction specification.
MaxCutLen == 3

\* Longest line (in chars) and longest record (in fields).
MaxLine == 3

----------------------------------------------------------------------------
(* Characters and strings.                                                 *)

\* one_of("0123456789")
Digits == {"0", "1", "2", "3", "4", "5", "6", "7", "8", "9"}

DigitVal(c) ==
    CASE c = "0" -> 0 [] c = "1" -> 1 [] c = "2" -> 2 [] c = "3" -> 3
      [] c = "4" -> 4 [] c = "5" -> 5 [] c = "6" -> 6 [] c = "7" -> 7
      [] c = "8" -> 8 [] c = "9" -> 9

\* usize::MAX, the end of an open-ended range.  It is 2^64 - 1 on a 64-bit
\* target; TLC's integers are 32-bit, so the model takes the largest of
\* those.  Every index and every parsed value of the bounded model lies far
\* below either number.
USIZE_MAX == 2147483647

\* s without its first n characters (the remaining input of a parser).
Drop(s, n) == SubSeq(s, n + 1, Len(s))

\* The first n characters of s (what recognize(...) returns).
Take(s, n) == SubSeq(s, 1, n)

----------------------------------------------------------------------------
(* The nom grammar.  A parser is modelled by the number of characters it   *)
(* consumes from the front of s, or -1 for Err(Err::Error(_)).  All the    *)
(* parsers used are "complete" ones: none returns Incomplete or Failure.   *)

\* char(c)
CharP(s, c) == IF s # <<>> /\ Head(s) = c THEN 1 ELSE -1

\* many0(char('_'))
RECURSIVE Many0Underscore(_)
Many0Underscore(s) ==
    IF CharP(s, "_") = -1 THEN 0 ELSE 1 + Many0Underscore(Tail(s))

\* terminated(one_of("0123456789"), many0(char('_')))
DigitThenUnderscores(s) ==
    IF s # <<>> /\ Head(s) \in Digits
    THEN 1 + Many0Underscore(Tail(s))
    ELSE -1

\* many0 of the element above: the tail of many1.
RECURSIVE Many0Elem(_)
Many0Elem(s) ==
    LET n == DigitThenUnderscores(s)
    IN  IF n = -1 THEN 0 ELSE n + Many0Elem(Drop(s, n))

\* decimal: recognize(many1(terminated(one_of(digits), many0(char('_')))))
decimal(s) ==
    LET n == DigitThenUnderscores(s)
    IN  IF n = -1 THEN -1 ELSE n + Many0Elem(Drop(s, n))

\* range_input trying the single number before the ranges.
range_input_number_first(s) ==
    LET d1   == decimal(s)
        m    == CharP(s, "-")
        d3   == IF m = -1 THEN -1 ELSE decimal(Drop(s, 1))
    IN  IF d1 # -1 THEN d1
        ELSE IF d3 # -1 THEN 1 + d3
        ELSE -1

\* range_input: alt of the four token shapes, tried in the source's order.
range_input(s) ==
    LET d1   == decimal(s)
        dash == IF d1 = -1 THEN -1 ELSE CharP(Drop(s, d1), "-")
        d2   == IF dash = -1 THEN -1 ELSE decimal(Drop(s, d1 + 1))
        m    == CharP(s, "-")
        d3   == IF m = -1 THEN -1 ELSE decimal(Drop(s, 1))
    IN  IF d2 # -1 THEN d1 + 1 + d2          \* 42-42
        ELSE IF dash # -1 THEN d1 + 1        \* 42-
        ELSE IF d3 # -1 THEN 1 + d3          \* -42
        ELSE d1                              \* 42, or the error of alt

\* The loop of separated_list0 after the first element: s is the input left,
\* acc the tokens so far.  tag(",") always consumes, so the infinite-loop
\* check never fires.
RECURSIVE SepLoop(_, _)
SepLoop(s, acc) ==
    IF CharP(s, ",") = -1
    THEN [rest |-> s, tokens |-> acc]
    ELSE LET n == range_input(Tail(s))
         IN  IF n = -1
             THEN [rest |-> s, tokens |-> acc]
             ELSE SepLoop(Drop(Tail(s), n), Append(acc, Take(Tail(s), n)))

\* separated_list0(tag(","), range_input)(input): always Ok((rest, tokens)).
separated_list0(s) ==
    LET n == range_input(s)
    IN  IF n = -1
        THEN [rest |-> s, tokens |-> <<>>]
        ELSE SepLoop(Drop(s, n), <<Take(s, n)>>)

----------------------------------------------------------------------------
(* Errors and results.                                                     *)

NoErr == [kind |-> "none", val |-> <<>>, from |-> 0, to |-> 0]

\* format!("illegal list value: \"{}\"", val)
format_val_err(val) ==
    [kind |-> "illegal list value", val |-> val, from |-> 0, to |-> 0]

\* format!("First number in range ({}) must be lower than second number ({})")
format_range_err(from, to) ==
    [kind |-> "range order", val |-> <<>>, from |-> from, to |-> to]

Ok(v) == [ok |-> TRUE, v |-> v, err |-> NoErr]
Err(e) == [ok |-> FALSE, v |-> <<>>, err |-> e]

----------------------------------------------------------------------------
(* parse and parsed_to_range.                                              *)

\* The value of a sequence of decimal digits.
RECURSIVE DecValue(_)
DecValue(ds) ==
    IF ds = <<>> THEN 0
    ELSE 10 * DecValue(SubSeq(ds, 1, Len(ds) - 1)) + DigitVal(ds[Len(ds)])

\* ParseNonZeroUsize parsing a plain usize: zero is accepted.
ParseUsizeWithZero(s) ==
    LET ds == IF s # <<>> /\ Head(s) = "+" THEN Tail(s) ELSE s
    IN  IF ds = <<>> THEN Err(NoErr)
        ELSE IF \E i \in 1..Len(ds) : ds[i] \notin Digits THEN Err(NoErr)
        ELSE IF DecValue(ds) > USIZE_MAX THEN Err(NoErr)
        ELSE Ok(DecValue(ds))

\* str::parse::<NonZeroUsize>: an optional '+', then one or more decimal
\* digits and nothing else; the value must fit usize and must not be zero.
ParseNonZeroUsize(s) ==
    LET ds == IF s # <<>> /\ Head(s) = "+" THEN Tail(s) ELSE s
    IN  IF ds = <<>> THEN Err(NoErr)
        ELSE IF \E i \in 1..Len(ds) : ds[i] \notin Digits THEN Err(NoErr)
        ELSE IF DecValue(ds) > USIZE_MAX THEN Err(NoErr)
        ELSE IF DecValue(ds) = 0 THEN Err(NoErr)
        ELSE Ok(DecValue(ds))

\* parse
parse(s) ==
    LET r == ParseNonZeroUsize(s)
    IN  IF r.ok THEN Ok(r.v) ELSE Err(format_val_err(s))

\* str::split('-'): the pieces between the dashes (always at least one).
RECURSIVE SplitDash(_, _)
SplitDash(s, cur) ==
    IF s = <<>> THEN <<cur>>
    ELSE IF Head(s) = "-" THEN <<cur>> \o SplitDash(Tail(s), <<>>)
    ELSE SplitDash(Tail(s), Append(cur, Head(s)))

Range(start, end) == [start |-> start, end |-> end]

\* parsed_to_range, arm ["", to]: Ok(0..parse(to)?)
OpenStartArm(to) ==
    IF ~to.ok THEN Err(to.err) ELSE Ok(Range(0, to.v))

\* OpenEndArm with the fixed ceiling 255 in place of usize::MAX.
OpenEndArmCapped(from) ==
    IF ~from.ok THEN Err(from.err) ELSE Ok(Range(from.v - 1, 255))

\* parsed_to_range, arm [from, ""]: Ok((parse(from)? - 1)..usize::MAX)
OpenEndArm(from) ==
    IF ~from.ok THEN Err(from.err) ELSE Ok(Range(from.v - 1, USIZE_MAX))

\* SingleArm keeping the 1-based position as the start: pos..pos+1.
SingleArmOneBased(pos) ==
    IF ~pos.ok THEN Err(pos.err) ELSE Ok(Range(pos.v, pos.v + 1))

\* parsed_to_range, arm [result]: Ok((pos - 1)..pos)
SingleArm(pos) ==
    IF ~pos.ok THEN Err(pos.err) ELSE Ok(Range(pos.v - 1, pos.v))

\* BoundedArm without the check of the order of the two numbers.
BoundedArmUnchecked(from, to) ==
    IF ~from.ok THEN Err(from.err)
    ELSE IF ~to.ok THEN Err(to.err)
    ELSE Ok(Range(from.v - 1, to.v))

\* BoundedArm with the two numbers of the error message exchanged.
BoundedArmSwapped(from, to) ==
    IF ~from.ok THEN Err(from.err)
    ELSE IF ~to.ok THEN Err(to.err)
    ELSE IF from.v > to.v THEN Err(format_range_err(to.v, from.v))
    ELSE Ok(Range(from.v - 1, to.v))

\* BoundedArm rejecting equal endpoints as well (from >= to).
BoundedArmStrict(from, to) ==
    IF ~from.ok THEN Err(from.err)
    ELSE IF ~to.ok THEN Err(to.err)
    ELSE IF from.v >= to.v THEN Err(format_range_err(from.v, to.v))
    ELSE Ok(Range(from.v - 1, to.v))

\* parsed_to_range, arm [from, to]: both numbers are parsed, from first,
\* then the order is checked.
BoundedArm(from, to) ==
    IF ~from.ok THEN Err(from.err)
    ELSE IF ~to.ok THEN Err(to.err)
    ELSE IF from.v > to.v THEN Err(format_range_err(from.v, to.v))
    ELSE Ok(Range(from.v - 1, to.v))

\* parsed_to_range: the match arms in the source's order, `?` returning the
\* first error.
parsed_to_range(tok) ==
    LET p == SplitDash(tok, <<>>)
    IN  IF Len(p) = 2 /\ p[1] = <<>> THEN OpenStartArm(parse(p[2]))
        ELSE IF Len(p) = 2 /\ p[2] = <<>> THEN OpenEndArm(parse(p[1]))
        ELSE IF Len(p) = 1 THEN SingleArm(parse(p[1]))
        ELSE IF Len(p) = 2 THEN BoundedArm(parse(p[1]), parse(p[2]))
        ELSE Err(format_val_err(tok))

\* Collect keeping one range per distinct value (a set-like list).
RECURSIVE CollectDeduplicated(_, _)
CollectDeduplicated(toks, acc) ==
    IF toks = <<>> THEN Ok(acc)
    ELSE LET r == parsed_to_range(Head(toks))
         IN  IF ~r.ok THEN Err(r.err)
             ELSE IF \E i \in 1..Len(acc) : acc[i] = r.v
                  THEN CollectDeduplicated(Tail(toks), acc)
                  ELSE CollectDeduplicated(Tail(toks), Append(acc, r.v))

\* .map(parsed_to_range).collect::<Result<Vec<_>, String>>(): the ranges in
\* token order, or the first error.
RECURSIVE Collect(_, _)
Collect(toks, acc) ==
    IF toks = <<>> THEN Ok(acc)
    ELSE LET r == parsed_to_range(Head(toks))
         IN  IF ~r.ok THEN Err(r.err)
             ELSE Collect(Tail(toks), Append(acc, r.v))

\* PositionResult of the variant that rejects the empty list.
PositionResultNonEmpty(g) ==
    IF g.rest # <<>> \/ g.tokens = <<>> THEN Err(format_val_err(g.rest))
    ELSE Collect(g.tokens, <<>>)

\* PositionResult citing the leftover input without its leading comma.
PositionResultTokenOnly(g) ==
    IF g.rest # <<>>
    THEN Err(format_val_err(IF Head(g.rest) = "," THEN Tail(g.rest)
                                                  ELSE g.rest))
    ELSE Collect(g.tokens, <<>>)

\* parse_position, from the grammar's answer (rest, tokens).
PositionResult(g) ==
    IF g.rest # <<>> THEN Err(format_val_err(g.rest))
    ELSE Collect(g.tokens, <<>>)

parse_position(s) == PositionResult(separated_list0(s))

----------------------------------------------------------------------------
(* The inputs the model draws.                                             *)

\* The characters option values are built from: three digits, the two
\* separators, and three characters the grammar treats specially or rejects.
Alphabet == {"0", "1", "2", "-", ",", "+", "a", "_"}

\* All strings over A of length at most n.
StringsUpTo(A, n) == UNION {[1..k -> A] : k \in 0..n}

\* The option values of the unit tests that are longer than MaxLen.
TestInputs ==
    { <<"1", ",", "7", ",", "3", "-", "5">>,
      <<"1", "5", ",", "1", "9", "-", "2", "0">>,
      <<"0", "0", "1", ",", "0", "0", "0", "3">>,
      <<"0", "0", "0", "1", "-", "0", "3">> }

Inputs == StringsUpTo(Alphabet, MaxLen) \cup TestInputs

NoResult == [ok |-> FALSE, v |-> <<>>, err |-> NoErr]

\* An option that is not on the command line.
Absent == [given |-> FALSE, val |-> <<>>]

Given(v) == [given |-> TRUE, val |-> v]

\* The state of the program's own variables while only a parser or an
\* extractor is exercised: no command line, no Config, nothing read.
NoCli == [bytes |-> Absent, chars |-> Absent, fields |-> Absent,
          delim |-> Absent, nfiles |-> 0]

\* Option<PositionList>.
None == [some |-> FALSE, v |-> <<>>]

Some(v) == [some |-> TRUE, v |-> v]

NoConfig == [bytes |-> None, chars |-> None, fields |-> None,
             delimiter |-> 0, nfiles |-> 0, error |-> "none"]

RunIdle ==
    /\ cli = NoCli
    /\ config = NoConfig
    /\ fileIdx = 0
    /\ nread = 0
    /\ nfields = 0
    /\ log = <<>>

----------------------------------------------------------------------------
(* The state machine: clap calls the value parser parse_position on the    *)
(* option value; its two stages are the grammar and the conversion.        *)

InitParse ==
    /\ input \in Inputs
    /\ pc = "args"
    /\ rest = <<>>
    /\ parsed = <<>>
    /\ result = NoResult
    /\ mode = "none"
    /\ line = <<>>
    /\ out = <<>>
    /\ buf = <<>>
    /\ RunIdle

\* parse_position, line 144: the grammar is run over the whole input.
Grammar ==
    /\ pc = "args"
    /\ LET g == separated_list0(input)
       IN  /\ rest' = g.rest
           /\ parsed' = g.tokens
    /\ pc' = "grammar"
    /\ UNCHANGED <<input, result, mode, line, out, buf>>
    /\ UNCHANGED runVars

\* parse_position, lines 145-153: leftover input is an error, otherwise the
\* tokens are converted in order.
Convert ==
    /\ pc = "grammar"
    /\ result' = PositionResult([rest |-> rest, tokens |-> parsed])
    /\ pc' = "done"
    /\ UNCHANGED <<input, rest, parsed, mode, line, out, buf>>
    /\ UNCHANGED runVars

NextParse == Grammar \/ Convert

SpecParse == InitParse /\ [][NextParse]_vars

----------------------------------------------------------------------------
(* Extraction.  A char is its Unicode scalar value, a byte a number below  *)
(* 256, a field an opaque string.                                          *)

\* Range::contains with the end taken as part of the range.
ContainsClosed(cp, idx) == cp.start <= idx /\ idx <= cp.end

\* Range::contains(&idx): start <= idx < end
Contains(cp, idx) == cp.start <= idx /\ idx < cp.end

\* PushRange with a range that starts past the last item clamped to it.
RECURSIVE PushRangeClamped(_, _, _)
PushRangeClamped(items, cp, idx) ==
    IF items = <<>> THEN <<>>
    ELSE (IF Contains(cp, idx) \/ (Len(items) = 1 /\ cp.start > idx)
          THEN <<Head(items)>> ELSE <<>>)
         \o PushRangeClamped(Tail(items), cp, idx + 1)

\* items.enumerate().for_each(|(idx, c)| if cp.contains(&idx) { push(c) }),
\* started at the 0-based index idx with items the part not yet visited.
RECURSIVE PushRange(_, _, _)
PushRange(items, cp, idx) ==
    IF items = <<>> THEN <<>>
    ELSE (IF Contains(cp, idx) THEN <<Head(items)>> ELSE <<>>)
         \o PushRange(Tail(items), cp, idx + 1)

\* The loop shared by the three extractors: for cp in chars_pos.iter(), every
\* item of the line is visited again from index 0.
RECURSIVE ExtractLoop(_, _)
ExtractLoop(items, positions) ==
    IF positions = <<>> THEN <<>>
    ELSE PushRange(items, Head(positions), 0)
         \o ExtractLoop(items, Tail(positions))

\* The UTF-8 encoding of one char (the model's chars are below U+0800).
Utf8Char(c) ==
    IF c < 128 THEN <<c>> ELSE <<192 + (c \div 64), 128 + (c % 64)>>

\* str::bytes(): the UTF-8 encoding of the line.
RECURSIVE Utf8Bytes(_)
Utf8Bytes(chars) ==
    IF chars = <<>> THEN <<>>
    ELSE Utf8Char(Head(chars)) \o Utf8Bytes(Tail(chars))

\* A decoding that drops the bytes that are not part of a well-formed
\* sequence.
RECURSIVE from_utf8_dropping(_)
from_utf8_dropping(bytes) ==
    IF bytes = <<>> THEN <<>>
    ELSE IF bytes[1] < 128
         THEN <<bytes[1]>> \o from_utf8_dropping(Tail(bytes))
    ELSE IF /\ bytes[1] \in 194..223
            /\ Len(bytes) >= 2
            /\ bytes[2] \in 128..191
         THEN <<(bytes[1] - 192) * 64 + (bytes[2] - 128)>>
              \o from_utf8_dropping(Drop(bytes, 2))
    ELSE from_utf8_dropping(Tail(bytes))

\* String::from_utf8_lossy over one- and two-byte sequences: a well-formed
\* sequence becomes its char, every other byte U+FFFD (65533).
RECURSIVE from_utf8_lossy(_)
from_utf8_lossy(bytes) ==
    IF bytes = <<>> THEN <<>>
    ELSE IF bytes[1] < 128
         THEN <<bytes[1]>> \o from_utf8_lossy(Tail(bytes))
    ELSE IF /\ bytes[1] \in 194..223
            /\ Len(bytes) >= 2
            /\ bytes[2] \in 128..191
         THEN <<(bytes[1] - 192) * 64 + (bytes[2] - 128)>>
              \o from_utf8_lossy(Drop(bytes, 2))
    ELSE <<65533>> \o from_utf8_lossy(Tail(bytes))

extract_bytes(chars, positions) ==
    from_utf8_lossy(ExtractLoop(Utf8Bytes(chars), positions))

\* extract_chars that remembers that a line was read before and then
\* selects nothing.
extract_chars_once(chars, positions) ==
    IF nread > 0 THEN <<>> ELSE ExtractLoop(chars, positions)

\* extract_chars with the positions counted over line.bytes().
extract_chars_bytewise(chars, positions) ==
    from_utf8_lossy(ExtractLoop(Utf8Bytes(chars), positions))

extract_chars(chars, positions) == ExtractLoop(chars, positions)

extract_fields(record, positions) == ExtractLoop(record, positions)

\* The chars lines are drawn from: 'a', 'b' and the two-byte U+00E1.
LineChars == {97, 98, 225}

\* The fields records are drawn from.
FieldValues == {"Captain", "Sham", "12345"}

Lines == StringsUpTo(LineChars, MaxLine)

Records == StringsUpTo(FieldValues, MaxLine)

\* The characters of the option values of the extraction specification.
CutAlphabet == {"1", "2", "3", "-", ","}

\* Longer option values: overlapping ranges, and a later range that starts
\* before an earlier one.
CutTestInputs == { <<"-", "2", ",", "2">>, <<"2", "-", ",", "1", "-", "2">> }

CutInputs == StringsUpTo(CutAlphabet, MaxCutLen) \cup CutTestInputs

InitCut ==
    /\ input \in CutInputs
    /\ pc = "args"
    /\ rest = <<>>
    /\ parsed = <<>>
    /\ result = NoResult
    /\ mode = "none"
    /\ line = <<>>
    /\ out = <<>>
    /\ buf = <<>>
    /\ RunIdle

\* run with --bytes: println!("{}", extract_bytes(&line?, byte_pos))
ExtractBytes ==
    /\ pc = "done"
    /\ result.ok
    /\ \E l \in Lines :
          /\ line' = l
          /\ buf' = ExtractLoop(Utf8Bytes(l), result.v)
          /\ out' = extract_bytes(l, result.v)
    /\ mode' = "bytes"
    /\ pc' = "extracted"
    /\ UNCHANGED <<input, rest, parsed, result>>
    /\ UNCHANGED runVars

\* run with --chars: println!("{}", extract_chars(&line?, char_pos))
ExtractChars ==
    /\ pc = "done"
    /\ result.ok
    /\ \E l \in Lines :
          /\ line' = l
          /\ buf' = ExtractLoop(l, result.v)
          /\ out' = extract_chars(l, result.v)
    /\ mode' = "chars"
    /\ pc' = "extracted"
    /\ UNCHANGED <<input, rest, parsed, result>>
    /\ UNCHANGED runVars

\* run with --fields: wtr.write_record(extract_fields(&record, field_pos))
ExtractFields ==
    /\ pc = "done"
    /\ result.ok
    /\ \E r \in Records :
          /\ line' = r
          /\ buf' = ExtractLoop(r, result.v)
          /\ out' = extract_fields(r, result.v)
    /\ mode' = "fields"
    /\ pc' = "extracted"
    /\ UNCHANGED <<input, rest, parsed, result>>
    /\ UNCHANGED runVars

NextCut == Grammar \/ Convert \/ ExtractBytes \/ ExtractChars \/ ExtractFields

SpecCut == InitCut /\ [][NextCut]_vars

-----------------------------------------------------------------------------
(* The delimiter option.                                                    *)

\* format!("Invalid delimiter: \"{}\"", val)
format_delim_err(val) ==
    [kind |-> "Invalid delimiter", val |-> val, from |-> 0, to |-> 0]

\* parse_delimiter with the second next() left out: the first byte of any
\* non-empty value is taken.
parse_delimiter_first_byte(delim) ==
    LET bytes == Utf8Bytes(delim)
    IN  IF bytes = <<>> THEN Err(format_delim_err(delim))
        ELSE [ok |-> TRUE, v |-> bytes[1], err |-> NoErr]

\* parse_delimiter: the first byte of delim.bytes(), an error when there is
\* none, and an error when a second next() yields another byte.
parse_delimiter(delim) ==
    LET bytes  == Utf8Bytes(delim)
        first  == IF bytes = <<>>
                  THEN Err(format_delim_err(delim))
                  ELSE [ok |-> TRUE, v |-> bytes[1], err |-> NoErr]
    IN  IF Len(bytes) <= 1 THEN first
        ELSE Err(format_delim_err(delim))

\* default_value = "\t"
DefaultDelimiter == <<9>>

\* The chars delimiter values are drawn from: tab, ',', 'a' and the two-byte
\* U+00E1.
DelimChars == {9, 44, 97, 225}

MaxDelimLen == 3

DelimInputs == StringsUpTo(DelimChars, MaxDelimLen)

InitDelim ==
    /\ input \in DelimInputs
    /\ pc = "delim"
    /\ rest = <<>>
    /\ parsed = <<>>
    /\ result = NoResult
    /\ mode = "none"
    /\ line = <<>>
    /\ out = <<>>
    /\ buf = <<>>
    /\ RunIdle

\* clap hands the option value to value_parser = parse_delimiter.
ParseDelimiter ==
    /\ pc = "delim"
    /\ pc' = "delim done"
    /\ result' = parse_delimiter(input)
    /\ UNCHANGED <<input, rest, parsed, mode, line, out, buf>>
    /\ UNCHANGED runVars

NextDelim == ParseDelimiter

SpecDelim == InitDelim /\ [][NextDelim]_vars

-----------------------------------------------------------------------------
(* The program: get_args (clap's Config::parse) and run.                    *)

MaxFiles == 2

MaxReadLines == 3

\* The values given to --bytes, --chars and --fields: two range lists and a
\* value parse_position rejects.
SelectorValues == { <<"1">>, <<"2", "-">>, <<"0">> }

\* The values given to --delim: a comma, and two commas (rejected).
DelimValues == { <<44>>, <<44, 44>> }

\* The lines the files hold: the empty line, "a", "a<TAB>b" and "a,b".
RunLines == { <<>>, <<97>>, <<97, 9, 98>>, <<97, 44, 98>> }

OptionChoices(values) == {Absent} \cup {Given(v) : v \in values}

CommandLines ==
    [bytes  : OptionChoices(SelectorValues),
     chars  : OptionChoices(SelectorValues),
     fields : OptionChoices(SelectorValues),
     delim  : OptionChoices(DelimValues),
     nfiles : 1..MaxFiles]

\* An ArgGroup of the three selectors that is not required.
FiltersGroupOptional(n) ==
    IF n > 1 THEN "conflict" ELSE "none"

\* An ArgGroup of the three selectors that allows several of them.
FiltersGroupMultiple(n) ==
    IF n = 0 THEN "missing selector" ELSE "none"

\* ArgGroup::new("filters").required(true).args(["chars", "bytes", "fields"]),
\* with clap's default multiple(false): n is the number of selectors given.
FiltersGroup(n) ==
    IF n > 1 THEN "conflict"
    ELSE IF n = 0 THEN "missing selector"
    ELSE "none"

\* An Option<PositionList> argument with value_parser = parse_position.
SelectorArg(opt) ==
    IF opt.given THEN parse_position(opt.val) ELSE Ok(<<>>)

SelectorField(opt) ==
    IF opt.given /\ parse_position(opt.val).ok
    THEN Some(parse_position(opt.val).v)
    ELSE None

\* The delimiter argument: the given value or the default, through
\* value_parser = parse_delimiter.
DelimiterArg(opt) ==
    parse_delimiter(IF opt.given THEN opt.val ELSE DefaultDelimiter)

Count(b) == IF b THEN 1 ELSE 0

\* Config::parse() with the delimiter taken as it is, to be looked at when
\* the first record is split.
ParseConfigLateDelimiter(c) ==
    LET valuesOk == /\ SelectorArg(c.bytes).ok
                    /\ SelectorArg(c.chars).ok
                    /\ SelectorArg(c.fields).ok
        n == Count(c.bytes.given) + Count(c.chars.given)
               + Count(c.fields.given)
    IN  [bytes     |-> SelectorField(c.bytes),
         chars     |-> SelectorField(c.chars),
         fields    |-> SelectorField(c.fields),
         delimiter |-> IF DelimiterArg(c.delim).ok
                       THEN DelimiterArg(c.delim).v ELSE 0,
         nfiles    |-> c.nfiles,
         error     |-> IF ~valuesOk THEN "invalid value"
                       ELSE FiltersGroup(n)]

\* Config::parse(): the value parsers run while the arguments are read, the
\* group is validated afterwards; any error ends the process.
ParseConfig(c) ==
    LET valuesOk == /\ SelectorArg(c.bytes).ok
                    /\ SelectorArg(c.chars).ok
                    /\ SelectorArg(c.fields).ok
                    /\ DelimiterArg(c.delim).ok
        n == Count(c.bytes.given) + Count(c.chars.given)
               + Count(c.fields.given)
    IN  [bytes     |-> SelectorField(c.bytes),
         chars     |-> SelectorField(c.chars),
         fields    |-> SelectorField(c.fields),
         delimiter |-> IF DelimiterArg(c.delim).ok
                       THEN DelimiterArg(c.delim).v ELSE 0,
         nfiles    |-> c.nfiles,
         error     |-> IF ~valuesOk THEN "invalid value"
                       ELSE FiltersGroup(n)]

\* One entry of the log.
Event(ev, file, text) == [ev |-> ev, file |-> file, text |-> text]

\* The records the csv reader makes of a line: the bytes between the
\* delimiters (the lines of the model hold no quote).
RECURSIVE ReadFields(_, _, _)
ReadFields(l, d, cur) ==
    IF l = <<>> THEN <<cur>>
    ELSE IF Head(l) = d THEN <<cur>> \o ReadFields(Tail(l), d, <<>>)
    ELSE ReadFields(Tail(l), d, Append(cur, Head(l)))

\* The fields joined by the delimiter.
RECURSIVE JoinFields(_, _)
JoinFields(fs, d) ==
    IF fs = <<>> THEN <<>>
    ELSE IF Len(fs) = 1 THEN fs[1]
    ELSE fs[1] \o <<d>> \o JoinFields(Tail(fs), d)

\* wtr.write_record: the fields joined by the delimiter; a record that wrote
\* no byte at all is written as two quotes (34).
write_record(fs, d) ==
    IF JoinFields(fs, d) = <<>> THEN <<34, 34>> ELSE JoinFields(fs, d)

InitRun ==
    /\ cli \in CommandLines
    /\ pc = "cli"
    /\ config = NoConfig
    /\ fileIdx = 0
    /\ nread = 0
    /\ nfields = 0
    /\ log = <<>>
    /\ input = <<>>
    /\ rest = <<>>
    /\ parsed = <<>>
    /\ result = NoResult
    /\ mode = "none"
    /\ line = <<>>
    /\ out = <<>>
    /\ buf = <<>>

\* get_args: Config::parse() either ends the process with a usage error or
\* returns the Config that run is called with.
GetArgs ==
    /\ pc = "cli"
    /\ config' = ParseConfig(cli)
    /\ pc' = IF ParseConfig(cli).error = "none" THEN "run" ELSE "usage error"
    /\ fileIdx' = IF ParseConfig(cli).error = "none" THEN 1 ELSE 0
    /\ UNCHANGED <<cli, nread, nfields, log>>
    /\ UNCHANGED parseVars

\* for filename in files { match open(&filename) ... }: an open that fails is
\* written to standard error and the loop goes on; an open that succeeds
\* enters the branch of the selector (unimplemented!() when there is none).
OpenFile ==
    /\ pc = "run"
    /\ fileIdx <= config.nfiles
    /\ \E opens \in BOOLEAN :
         IF opens
         THEN /\ log' = Append(log, Event("open", fileIdx, <<>>))
              /\ pc' = IF config.bytes.some \/ config.chars.some
                          \/ config.fields.some
                       THEN "file" ELSE "panic"
              /\ fileIdx' = fileIdx
         ELSE /\ log' = log \o << Event("open failed", fileIdx, <<>>),
                                  Event("stderr", fileIdx, <<>>) >>
              /\ pc' = "run"
              /\ fileIdx' = fileIdx + 1
    /\ nfields' = 0
    /\ UNCHANGED <<cli, config, nread>>
    /\ UNCHANGED parseVars

\* One iteration of the loop over file.lines() or reader.records() in which
\* the read succeeds.  With --bytes and --chars the line is extracted and
\* printed.  With --fields the csv reader skips an empty line, fails on a
\* record whose number of fields differs from the first record's of the file
\* (record? returns the error from run), and otherwise the selected fields
\* are written as one record.
ReadLine ==
    /\ pc = "file"
    /\ nread < MaxReadLines
    /\ nread' = nread + 1
    /\ \E l \in RunLines :
         LET read == Event("read", fileIdx, l)
             fs   == ReadFields(l, config.delimiter, <<>>)
         IN  IF config.bytes.some
             THEN /\ log' = log \o << read, Event("stdout", fileIdx,
                                        extract_bytes(l, config.bytes.v)) >>
                  /\ UNCHANGED <<pc, nfields>>
             ELSE IF config.chars.some
             THEN /\ log' = log \o << read, Event("stdout", fileIdx,
                                        extract_chars(l, config.chars.v)) >>
                  /\ UNCHANGED <<pc, nfields>>
             ELSE IF l = <<>>
             THEN /\ log' = Append(log, read)
                  /\ UNCHANGED <<pc, nfields>>
             ELSE IF nfields # 0 /\ Len(fs) # nfields
             THEN /\ log' = log \o << read,
                                      Event("read failed", fileIdx, <<>>) >>
                  /\ pc' = "failed"
                  /\ UNCHANGED nfields
             ELSE /\ log' = log \o << read, Event("stdout", fileIdx,
                                write_record(extract_fields(fs, config.fields.v),
                                             config.delimiter)) >>
                  /\ nfields' = Len(fs)
                  /\ UNCHANGED pc
    /\ UNCHANGED <<cli, config, fileIdx>>
    /\ UNCHANGED parseVars

\* The read of the next line or record fails (an I/O error, bytes that are
\* not UTF-8): line? and record? return the error from run.
ReadFails ==
    /\ pc = "file"
    /\ log' = Append(log, Event("read failed", fileIdx, <<>>))
    /\ pc' = "failed"
    /\ UNCHANGED <<cli, config, fileIdx, nread, nfields>>
    /\ UNCHANGED parseVars

\* The file is at its end: the loop over its lines ends and the loop over the
\* files goes on.
EndOfFile ==
    /\ pc = "file"
    /\ log' = Append(log, Event("eof", fileIdx, <<>>))
    /\ pc' = "run"
    /\ fileIdx' = fileIdx + 1
    /\ UNCHANGED <<cli, config, nread, nfields>>
    /\ UNCHANGED parseVars

\* Ok(()) after the last file.
Return ==
    /\ pc = "run"
    /\ fileIdx > config.nfiles
    /\ pc' = "ok"
    /\ UNCHANGED <<cli, config, fileIdx, nread, nfields, log>>
    /\ UNCHANGED parseVars

NextRun == GetArgs \/ OpenFile \/ ReadLine \/ ReadFails \/ EndOfFile \/ Return

SpecRun == InitRun /\ [][NextRun]_vars

----------------------------------------------------------------------------
(* What the specification says about a range list, stated without the      *)
(* parser: the comma-separated substrings, their shapes and their numbers.  *)

\* The substrings of s between the occurrences of c.
RECURSIVE SplitOn(_, _, _)
SplitOn(s, c, cur) ==
    IF s = <<>> THEN <<cur>>
    ELSE IF Head(s) = c THEN <<cur>> \o SplitOn(Tail(s), c, <<>>)
    ELSE SplitOn(Tail(s), c, Append(cur, Head(s)))

\* The comma-separated substrings of a range list (none for the empty list).
Pieces(s) == IF s = <<>> THEN <<>> ELSE SplitOn(s, ",", <<>>)

\* A digit sequence with optional '_' after its digits.
IsDecimalWord(w) ==
    /\ w # <<>>
    /\ w[1] \in Digits
    /\ \A i \in 1..Len(w) : w[i] \in Digits \cup {"_"}

\* The shape of a substring: N, -N, N-, M-N, or none of them.
Shape(p) ==
    LET q == SplitOn(p, "-", <<>>)
    IN  IF Len(q) = 1 /\ IsDecimalWord(q[1]) THEN "single"
        ELSE IF Len(q) = 2 /\ q[1] = <<>> /\ IsDecimalWord(q[2])
             THEN "open start"
        ELSE IF Len(q) = 2 /\ IsDecimalWord(q[1]) /\ q[2] = <<>>
             THEN "open end"
        ELSE IF Len(q) = 2 /\ IsDecimalWord(q[1]) /\ IsDecimalWord(q[2])
             THEN "bounded"
        ELSE "malformed"

MatchesGrammar(p) == Shape(p) # "malformed"

\* Every substring matches the grammar.
GrammarValid(s) == \A i \in 1..Len(Pieces(s)) : MatchesGrammar(Pieces(s)[i])

\* A grammar-valid list written with digits, '-' and ',' only.
PlainList(s) ==
    /\ GrammarValid(s)
    /\ \A i \in 1..Len(s) : s[i] # "_"

\* w without its '_' separators.
StripUnderscores(w) == SelectSeq(w, LAMBDA c : c # "_")

\* The number a digit sequence denotes, read left to right.
RECURSIVE NumeralAcc(_, _)
NumeralAcc(w, acc) ==
    IF w = <<>> THEN acc
    ELSE NumeralAcc(Tail(w), 10 * acc + DigitVal(Head(w)))

Numeral(w) == NumeralAcc(StripUnderscores(w), 0)

\* The first and the second component of a substring, as written.
FirstWord(p) == SplitOn(p, "-", <<>>)[1]
SecondWord(p) == SplitOn(p, "-", <<>>)[2]

\* The 1-based boundaries a well-shaped substring denotes; 0 stands for the
\* absent upper boundary of N-.
Lo(p) ==
    IF Shape(p) = "open start" THEN 1 ELSE Numeral(FirstWord(p))

Hi(p) ==
    CASE Shape(p) = "single" -> Numeral(FirstWord(p))
      [] Shape(p) = "open end" -> 0
      [] OTHER -> Numeral(SecondWord(p))

\* The numeric components written in a substring.
Words(p) ==
    CASE Shape(p) = "single" -> <<FirstWord(p)>>
      [] Shape(p) = "open end" -> <<FirstWord(p)>>
      [] Shape(p) = "open start" -> <<SecondWord(p)>>
      [] Shape(p) = "bounded" -> <<FirstWord(p), SecondWord(p)>>
      [] OTHER -> <<>>

ZeroWords(p) == SelectSeq(Words(p), LAMBDA w : Numeral(w) = 0)

\* A substring the specification accepts: every component >= 1, M <= N.
TokenValid(p) ==
    /\ MatchesGrammar(p)
    /\ ZeroWords(p) = <<>>
    /\ Shape(p) = "bounded" => Lo(p) <= Hi(p)

\* The index of the first substring for which P fails, 0 when there is none.
FirstFailing(ps, P(_)) ==
    IF \A i \in 1..Len(ps) : P(ps[i]) THEN 0
    ELSE CHOOSE i \in 1..Len(ps) :
             /\ ~P(ps[i])
             /\ \A j \in 1..(i - 1) : P(ps[j])

\* The normalized range of the table in the specification's section 4.2.
TableRange(p) ==
    CASE Shape(p) = "single" -> [start |-> Lo(p) - 1, end |-> Lo(p)]
      [] Shape(p) = "open start" -> [start |-> 0, end |-> Hi(p)]
      [] Shape(p) = "open end" -> [start |-> Lo(p) - 1, end |-> USIZE_MAX]
      [] OTHER -> [start |-> Lo(p) - 1, end |-> Hi(p)]

IsSuffix(t, s) == Len(t) <= Len(s) /\ t = Drop(s, Len(s) - Len(t))

Failed == pc = "done" /\ ~result.ok
IllegalValue(v) ==
    Failed /\ result.err.kind = "illegal list value" /\ result.err.val = v

----------------------------------------------------------------------------
(* Claims about parse_position.                                            *)

\* The first substring of the input that the specification rejects.
FirstInvalidIndex == FirstFailing(Pieces(input), TokenValid)
FirstInvalid == Pieces(input)[FirstInvalidIndex]

\* C1: when the first invalid token of a plain list is M-N with M >= 1,
\* N >= 1 and M > N, parse_position fails with the range-order error that
\* states M first and N second, and returns no list.
C1_ReversedRangeIsRangeOrderError ==
    ( /\ pc = "done"
      /\ PlainList(input)
      /\ FirstInvalidIndex # 0
      /\ Shape(FirstInvalid) = "bounded"
      /\ ZeroWords(FirstInvalid) = <<>>
      /\ Lo(FirstInvalid) > Hi(FirstInvalid) )
    => /\ ~result.ok
       /\ result.v = <<>>
       /\ result.err.kind = "range order"
       /\ result.err.from = Lo(FirstInvalid)
       /\ result.err.to = Hi(FirstInvalid)

\* C1 witness: a reversed range after a valid token was rejected with the
\* range-order error.
C1_Witness ==
    /\ pc = "done"
    /\ input = <<"1", ",", "2", "-", "1">>
    /\ ~result.ok
    /\ result.err.kind = "range order"
    /\ result.err.from = 2
    /\ result.err.to = 1

\* C2: in a plain list whose tokens all have the shapes N, -N or M-N with
\* every number >= 1 and M <= N, every token parses to the range of the
\* table: (N-1)..N, 0..N, (M-1)..N; M-M is accepted and gives the range of
\* the single token M.
C2_TokensParseToTableRanges ==
    ( /\ pc = "done"
      /\ PlainList(input)
      /\ \A i \in 1..Len(Pieces(input)) :
            /\ TokenValid(Pieces(input)[i])
            /\ Shape(Pieces(input)[i]) # "open end" )
    => /\ result.ok
       /\ Len(result.v) = Len(Pieces(input))
       /\ \A i \in 1..Len(Pieces(input)) :
            LET p == Pieces(input)[i]
            IN  /\ result.v[i] = TableRange(p)
                /\ (Shape(p) = "bounded" /\ Lo(p) = Hi(p))
                      => /\ result.v[i] = [start |-> Lo(p) - 1, end |-> Lo(p)]
                         /\ parse_position(FirstWord(p)).ok
                         /\ parse_position(FirstWord(p)).v = <<result.v[i]>>

\* C2 witness: a list holding M-M and a single position was parsed.
C2_Witness ==
    /\ pc = "done"
    /\ input = <<"1", "-", "1", ",", "2">>
    /\ result.ok
    /\ result.v = <<[start |-> 0, end |-> 1], [start |-> 1, end |-> 2]>>

\* C3: an open-ended token N- (N >= 1) parses to the range that starts at
\* N-1 and ends at the sentinel usize::MAX, and extraction with the list
\* holding only that range returns every byte, char or field of the line
\* from index N-1 to its end, whatever the length of the line.
C3_OpenEndedReachesEndOfLine ==
    ( /\ pc \in {"done", "extracted"}
      /\ PlainList(input)
      /\ \A i \in 1..Len(Pieces(input)) : TokenValid(Pieces(input)[i]) )
    => /\ result.ok
       /\ Len(result.v) = Len(Pieces(input))
       /\ \A i \in 1..Len(Pieces(input)) :
            Shape(Pieces(input)[i]) = "open end"
               => /\ result.v[i].start = Lo(Pieces(input)[i]) - 1
                  /\ result.v[i].end = USIZE_MAX
       /\ ( /\ pc = "extracted"
            /\ Len(Pieces(input)) = 1
            /\ Shape(Pieces(input)[1]) = "open end" )
          => LET n == Lo(Pieces(input)[1])
             IN  /\ mode = "chars" => out = Drop(line, n - 1)
                 /\ mode = "fields" => out = Drop(line, n - 1)
                 /\ mode = "bytes"
                      => out = from_utf8_lossy(Drop(Utf8Bytes(line), n - 1))

\* C3 witness: bytes were extracted with 2- from the longest line, starting
\* inside its two-byte first char.
C3_Witness ==
    /\ pc = "extracted"
    /\ mode = "bytes"
    /\ input = <<"2", "-">>
    /\ result.v = <<[start |-> 1, end |-> USIZE_MAX]>>
    /\ Len(line) = MaxLine
    /\ line[1] = 225
    /\ Len(out) = MaxLine
    /\ out[1] = 65533

\* The first substring of the input that does not match the grammar.
FirstMalformedIndex == FirstFailing(Pieces(input), MatchesGrammar)
FirstMalformed == Pieces(input)[FirstMalformedIndex]

\* The number of characters of the input up to and including substring k
\* (with the commas between the substrings).
RECURSIVE LenThrough(_, _)
LenThrough(ps, k) ==
    IF k = 0 THEN 0
    ELSE LenThrough(ps, k - 1) + Len(ps[k]) + (IF k > 1 THEN 1 ELSE 0)

\* C4 as stated: when some comma-separated substring does not match the
\* grammar, parse_position fails with the illegal-list-value error and the
\* value it carries is an offending substring.
C4_CitesOffendingSubstring ==
    (pc = "done" /\ FirstMalformedIndex # 0)
    => /\ Failed
       /\ result.err.kind = "illegal list value"
       /\ \E i \in 1..Len(Pieces(input)) :
             /\ ~MatchesGrammar(Pieces(input)[i])
             /\ result.err.val = Pieces(input)[i]

\* C4 amended: when some comma-separated substring of a non-empty list does
\* not match the grammar, parse_position fails with the illegal-list-value
\* error and the value it carries is the input's tail from the place where
\* the grammar stopped: a non-empty suffix of the input that begins at the
\* comma before the first offending substring, or at or inside that
\* substring.
C4_CitesTailAtOffendingSubstring ==
    (pc = "done" /\ FirstMalformedIndex # 0)
    => LET ps     == Pieces(input)
           k      == FirstMalformedIndex
           after  == Len(input) - LenThrough(ps, k)
           before == IF k > 1 THEN 1 ELSE 0
       IN  /\ Failed
           /\ result.err.kind = "illegal list value"
           /\ result.err.val # <<>>
           /\ IsSuffix(result.err.val, input)
           /\ Len(result.err.val) >= after
           /\ Len(result.err.val) <= after + Len(ps[k]) + before
           /\ Len(result.err.val) = after => (k = 1 /\ ps[k] = <<>>)
           /\ (k > 1 /\ Len(result.err.val) = after + Len(ps[k]) + before)
                 => Head(result.err.val) = ","

\* C4 witness: the second substring is malformed and the error cites it
\* together with the comma before it.
C4_Witness ==
    /\ pc = "done"
    /\ input = <<"1", ",", "a">>
    /\ FirstMalformedIndex = 2
    /\ IllegalValue(<<",", "a">>)

\* The longest prefix of s that is a well-formed comma-separated token list.
LongestListPrefix(s) ==
    CHOOSE n \in 0..Len(s) :
        /\ n = 0 \/ GrammarValid(Take(s, n))
        /\ \A m \in (n + 1)..Len(s) : ~GrammarValid(Take(s, m))

\* C5: when the grammar stops before the end of the input, parse_position
\* fails and the illegal-list-value error cites exactly the input that
\* follows the longest prefix of well-formed comma-separated tokens: the
\* whole input for "+1", "a-1", "+1-2"; "a" for "1-a", "+2" for "1-+2";
\* ",a" for "1,a"; and "-", ",", "1,", "1-1-1", "1-1-a" are rejected.
C5_CitesUnconsumedSuffix ==
    pc = "done"
    => /\ LongestListPrefix(input) < Len(input)
          => IllegalValue(Drop(input, LongestListPrefix(input)))
       /\ input \in { <<"+", "1">>, <<"a", "-", "1">>,
                      <<"+", "1", "-", "2">> }
          => IllegalValue(input)
       /\ input = <<"1", "-", "a">> => IllegalValue(<<"a">>)
       /\ input = <<"1", "-", "+", "2">> => IllegalValue(<<"+", "2">>)
       /\ input = <<"1", ",", "a">> => IllegalValue(<<",", "a">>)
       /\ input \in { <<"-">>, <<",">>, <<"1", ",">>,
                      <<"1", "-", "1", "-", "1">>,
                      <<"1", "-", "1", "-", "a">> }
          => Failed

\* C5 witness: the grammar consumed "1-" of "1-+2" and the error cites the
\* rest.
C5_Witness ==
    /\ pc = "done"
    /\ input = <<"1", "-", "+", "2">>
    /\ parsed = <<<<"1", "-">>>>
    /\ rest = <<"+", "2">>
    /\ IllegalValue(<<"+", "2">>)

\* C6: in a plain grammar-valid list every number must be >= 1: a list that
\* parses has no zero component, and when the first invalid token has a
\* zero component parse_position fails with the illegal-list-value error
\* citing exactly that component as written (its first zero component),
\* not the whole token.
C6_ZeroComponentIsCited ==
    (pc = "done" /\ PlainList(input))
    => /\ result.ok
          => \A i \in 1..Len(Pieces(input)) : ZeroWords(Pieces(input)[i]) = <<>>
       /\ (FirstInvalidIndex # 0 /\ ZeroWords(FirstInvalid) # <<>>)
          => IllegalValue(ZeroWords(FirstInvalid)[1])

\* C6 witness: two invalid tokens, the error is for the zero of the first.
C6_Witness ==
    /\ pc = "done"
    /\ input = <<"1", "-", "0", ",", "0">>
    /\ FirstInvalidIndex = 1
    /\ IllegalValue(<<"0">>)

\* C7 as stated: a grammar-valid list with '_' separators whose numbers are
\* valid parses without error, to the ranges of the same list with the
\* underscores removed.
C7_UnderscoresAreAccepted ==
    ( /\ pc = "done"
      /\ GrammarValid(input)
      /\ \E i \in 1..Len(input) : input[i] = "_"
      /\ parse_position(StripUnderscores(input)).ok )
    => /\ result.ok
       /\ result.v = parse_position(StripUnderscores(input)).v

C9_OneRangePerTokenInOrder ==
    (pc = "done" /\ result.ok)
    => /\ Len(result.v) = Len(Pieces(input))
       /\ \A i \in 1..Len(Pieces(input)) :
            /\ parse_position(Pieces(input)[i]).ok
            /\ parse_position(Pieces(input)[i]).v = <<result.v[i]>>
       /\ input = <<"1", ",", "7", ",", "3", "-", "5">>
          => result.v = << [start |-> 0, end |-> 1],
                           [start |-> 6, end |-> 7],
                           [start |-> 2, end |-> 5] >>

\* C9 witness: a list with a repeated token and a later token that lies
\* before it was parsed, keeping the repetition and the order.
C9_Witness ==
    /\ pc = "done"
    /\ input = <<"2", ",", "2", ",", "1">>
    /\ result.ok
    /\ result.v = << [start |-> 1, end |-> 2],
                     [start |-> 1, end |-> 2],
                     [start |-> 0, end |-> 1] >>

\* C10: for every non-empty list that parses, each range written back in
\* 1-based form (start + 1, end; the sentinel as an open end) gives the
\* numeric boundaries of its token; leading zeros change nothing:
\* "001,0003" parses like "1,3" and "0001-03" like "1-3".
C10_RoundTripRecoversBoundaries ==
    (pc = "done" /\ result.ok /\ input # <<>>)
    => /\ Len(result.v) = Len(Pieces(input))
       /\ \A i \in 1..Len(Pieces(input)) :
            LET p == Pieces(input)[i]
            IN  /\ MatchesGrammar(p)
                /\ result.v[i].start + 1 = Lo(p)
                /\ IF Shape(p) = "open end"
                   THEN result.v[i].end = USIZE_MAX
                   ELSE result.v[i].end = Hi(p) /\ result.v[i].end < USIZE_MAX
       /\ input = <<"0", "0", "1", ",", "0", "0", "0", "3">>
          => result.v = parse_position(<<"1", ",", "3">>).v
       /\ input = <<"0", "0", "0", "1", "-", "0", "3">>
          => result.v = parse_position(<<"1", "-", "3">>).v

\* C10 witness: a list written with leading zeros was parsed.
C10_Witness ==
    /\ pc = "done"
    /\ input = <<"0", "0", "1", ",", "0", "0", "0", "3">>
    /\ result.ok
    /\ result.v = <<[start |-> 0, end |-> 1], [start |-> 2, end |-> 3]>>

\* C11: every range of a list that parse_position returns satisfies
\* 0 <= start < end; the range of an open-ended token ends at the sentinel
\* with its start strictly below it.  No range is empty or reversed and no
\* start is computed below zero.
C11_RangesAreNonEmptyAndForward ==
    (pc = "done" /\ result.ok)
    => /\ Len(result.v) = Len(Pieces(input))
       /\ \A i \in 1..Len(result.v) :
            /\ 0 <= result.v[i].start
            /\ result.v[i].start < result.v[i].end
            /\ result.v[i].end <= USIZE_MAX
            /\ Shape(Pieces(input)[i]) = "open end"
                 => /\ result.v[i].end = USIZE_MAX
                    /\ result.v[i].start < USIZE_MAX

\* C11 witness: a list with a one-element range from M-M and a range that
\* starts at index 0 was returned.
C11_Witness ==
    /\ pc = "done"
    /\ input = <<"2", "-", "2", ",", "1">>
    /\ result.ok
    /\ result.v = << [start |-> 1, end |-> 2],
                     [start |-> 0, end |-> 1] >>

-----------------------------------------------------------------------------
(* The program: configuration, errors and the files.                        *)

\* The number of selectors on the command line.
SelectorsGiven ==
    Cardinality({o \in {"bytes", "chars", "fields"} : cli[o].given})

\* The number of selectors set in the Config.
SelectorsSet ==
    Cardinality({o \in {"bytes", "chars", "fields"} : config[o].some})

\* run was entered.
InRun == pc \in {"run", "file", "ok", "failed", "panic"}

\* C12: a command line with no selector, or with more than one of bytes,
\* chars and fields, is rejected as a configuration error; a command line
\* with exactly one selector and legal option values is accepted; and run is
\* only ever entered with exactly one selector set (its branch for no
\* selector is never taken).
C12_ExactlyOneSelector ==
    pc # "cli"
    => /\ SelectorsGiven # 1
            => (pc = "usage error" /\ config.error # "none")
       /\ (SelectorsGiven = 1 /\ config.error # "invalid value")
            => InRun
       /\ InRun => (SelectorsSet = 1 /\ SelectorsGiven = 1)
       /\ pc # "panic"

\* C12 witness: --bytes 1 --chars 1 was rejected as a conflict.
C12_Witness ==
    /\ pc = "usage error"
    /\ cli.bytes = Given(<<"1">>)
    /\ cli.chars = Given(<<"1">>)
    /\ ~cli.fields.given
    /\ config.error = "conflict"

\* A range list the specification accepts.
LegalList(s) ==
    /\ PlainList(s)
    /\ \A i \in 1..Len(Pieces(s)) : TokenValid(Pieces(s)[i])

\* The command line has no configuration error: every selector value is a
\* legal range list, the delimiter (if given) is one byte, and exactly one
\* selector is given.
LegalCommandLine ==
    /\ \A o \in {"bytes", "chars", "fields"} :
         cli[o].given => LegalList(cli[o].val)
    /\ cli.delim.given => Len(Utf8Bytes(cli.delim.val)) = 1
    /\ SelectorsGiven = 1

\* C13: every configuration error (malformed range list, invalid delimiter,
\* missing or conflicting selector) is raised by the step that parses the
\* arguments, with nothing opened, read or written before it; after it the
\* program takes no further step, so no input is consumed; and whatever is
\* opened, read or written belongs to a command line without such an error.
C13_ConfigErrorsPrecedeIO ==
    [][ /\ pc # "usage error"
        /\ pc = "cli" =>
             /\ log = <<>> /\ log' = <<>>
             /\ ~LegalCommandLine <=> pc' = "usage error"
             /\ ~LegalCommandLine <=> config'.error # "none"
        /\ pc # "cli" => (pc' # "usage error" /\ config' = config)
        /\ log' # log => (LegalCommandLine /\ config.error = "none")
      ]_vars

\* C13 witness: --fields 0 with a file to read ended in a usage error with
\* nothing opened, read or written.
C13_Witness ==
    /\ pc = "usage error"
    /\ cli.fields = Given(<<"0">>)
    /\ ~cli.bytes.given /\ ~cli.chars.given /\ ~cli.delim.given
    /\ config.error = "invalid value"
    /\ log = <<>>
    /\ fileIdx = 0

\* The log has an event ev of file f.
Logged(ev, f) == \E i \in 1..Len(log) : log[i].ev = ev /\ log[i].file = f

\* C14: a failure on one input file, be it an open that fails or a read error
\* while its lines or records are read, is written to standard error and
\* does not abort the run: run never returns an error, the files after the
\* failing one are still opened, and run returns success.
C14_FileFailureDoesNotAbortRun ==
    /\ pc # "failed"
    /\ \A i \in 1..Len(log) :
         log[i].ev \in {"open failed", "read failed"}
           => /\ i < Len(log)
              /\ log[i + 1].ev = "stderr"
              /\ log[i + 1].file = log[i].file
    /\ pc = "ok" =>
         \A f \in 1..config.nfiles : Logged("open", f) \/ Logged("open failed", f)

\* run has ended, with success or with an error.
RunEnded == pc \in {"ok", "failed"}

\* The events of the log are grouped by file, in the order of the files: no
\* event of a later file precedes an event of an earlier file, and a file is
\* opened at most once.
FilesInOrder ==
    /\ \A i, j \in 1..Len(log) : i < j => log[i].file <= log[j].file
    /\ \A i, j \in 1..Len(log) :
         (log[i].ev \in {"open", "open failed"}
            /\ log[j].ev \in {"open", "open failed"}
            /\ log[i].file = log[j].file) => i = j
    /\ \A i \in 1..Len(log) :
         log[i].ev \in {"read", "stdout", "eof", "read failed"}
           => \E k \in 1..(i - 1) : log[k].ev = "open" /\ log[k].file = log[i].file

\* C15: the files are processed one after another in the order of the
\* command line, and no output line of a later file is written before the
\* last output line of an earlier file; when run has ended the output is the
\* concatenation of the output of every readable file, so every file of the
\* list was taken in turn: its open failed, or it was opened and read to its
\* end or to a read error.
C15_OutputIsConcatenationInOrder ==
    /\ FilesInOrder
    /\ RunEnded =>
         \A f \in 1..config.nfiles :
           \/ Logged("open failed", f)
           \/ /\ Logged("open", f)
              /\ Logged("eof", f) \/ Logged("read failed", f)

\* C16: in each extraction mode exactly one output line is written for every
\* input line, the empty line and a line from which nothing is selected
\* included, in the order of the lines: every line read is followed at once
\* by its output line (unless the read ends in an error), and every output
\* line follows the line it was made from.
C16_OneOutputLinePerInputLine ==
    \A i \in 1..Len(log) :
      /\ log[i].ev = "read"
           => /\ i < Len(log)
              /\ log[i + 1].ev \in {"stdout", "read failed"}
              /\ log[i + 1].file = log[i].file
      /\ log[i].ev = "stdout"
           => /\ i > 1
              /\ log[i - 1].ev = "read"
              /\ log[i - 1].file = log[i].file

-----------------------------------------------------------------------------
(* Claims about parse_delimiter.                                            *)

\* C17: a delimiter value is accepted if and only if it is exactly one byte
\* long, and the result is then that byte; the empty value and every value
\* of two or more bytes, a single char encoded in two bytes included, is
\* rejected with the invalid-delimiter error that cites the value; and the
\* default value is accepted as the tab byte.
C17_DelimiterIsExactlyOneByte ==
    /\ pc = "delim done" =>
         IF Len(Utf8Bytes(input)) = 1
         THEN result.ok /\ result.v = input[1] /\ result.v < 128
         ELSE /\ ~result.ok
              /\ result.err.kind = "Invalid delimiter"
              /\ result.err.val = input
    /\ (pc = "delim done" /\ input = DefaultDelimiter)
         => (result.ok /\ result.v = 9)

\* C17 witness: the one char U+00E1, two bytes long, was rejected with the
\* error citing it.
C17_Witness ==
    /\ pc = "delim done"
    /\ input = <<225>>
    /\ ~result.ok
    /\ result.err = format_delim_err(<<225>>)

-----------------------------------------------------------------------------
(* Claims about the extractors.                                             *)

Min(a, b) == IF a <= b THEN a ELSE b

\* The items whose 0-based index lies in [r.start, r.end), in ascending
\* order of the index.
SliceOf(items, r) == SubSeq(items, r.start + 1, Min(r.end, Len(items)))

\* The slices of the ranges, one after the other in the order of the list.
RECURSIVE SelectedBy(_, _)
SelectedBy(items, positions) ==
    IF positions = <<>> THEN <<>>
    ELSE SliceOf(items, Head(positions))
         \o SelectedBy(items, Tail(positions))

\* The bytes of the line, char after char.
BytesOf(chars) ==
    LET size(c) == IF c < 128 THEN 1 ELSE 2
        off[i \in 1..(Len(chars) + 1)] ==
            IF i = 1 THEN 0 ELSE off[i - 1] + size(chars[i - 1])
        total == off[Len(chars) + 1]
        owner(b) == CHOOSE i \in 1..Len(chars) :
                        off[i] < b /\ b <= off[i] + size(chars[i])
    IN  [b \in 1..total |->
           LET c == chars[owner(b)]
           IN  IF c < 128 THEN c
               ELSE IF b = off[owner(b)] + 1 THEN 192 + (c \div 64)
               ELSE 128 + (c % 64)]

Extracted(m) == pc = "extracted" /\ mode = m

\* C18: the bytes extract_bytes selects are, range after range in the order
\* of the list, the bytes of the line with 0-based index in [start, end),
\* ascending within a range; the ranges are applied independently of each
\* other, so a later range may select earlier bytes and overlapping or
\* repeated ranges select the same bytes again.  For a line of one-byte
\* chars the output is these bytes.
C18_BytesSelectedPerRangeInListOrder ==
    Extracted("bytes")
    => /\ buf = SelectedBy(BytesOf(line), result.v)
       /\ (\A i \in 1..Len(line) : line[i] < 128)
            => out = SelectedBy(line, result.v)

\* C18 witness: -2,2 on "ab" selected the second byte twice.
C18_Witness ==
    /\ Extracted("bytes")
    /\ input = <<"-", "2", ",", "2">>
    /\ line = <<97, 98>>
    /\ buf = <<97, 98, 98>>
    /\ out = <<97, 98, 98>>

\* C19: extract_chars counts positions over the chars of the line: the
\* output is, range after range in the order of the list, the chars with
\* 0-based char index in [start, end); a char of several bytes counts as one
\* position and is put out whole, so every char of the output is a char of
\* the line and no replacement char is made.
C19_CharsSelectedByCharIndex ==
    Extracted("chars")
    => /\ out = SelectedBy(line, result.v)
       /\ \A i \in 1..Len(out) :
            /\ \E j \in 1..Len(line) : out[i] = line[j]
            /\ out[i] # 65533

\* C19 witness: positions 2 and 1 of the line U+00E1 "b" selected "b" and
\* then the two-byte char, whole.
C19_Witness ==
    /\ Extracted("chars")
    /\ input = <<"2", ",", "1">>
    /\ line = <<225, 98>>
    /\ out = <<98, 225>>

IsLead(b) == b \in 194..223

IsContinuation(b) == b \in 128..191

\* The byte at index i of bs neither is a one-byte char nor belongs to a
\* complete two-byte sequence: a lead byte with no continuation byte after
\* it, or a continuation byte with no lead byte before it (a lead byte takes
\* the one continuation byte that follows it).
StrayAt(bs, i) ==
    IF bs[i] < 128 THEN FALSE
    ELSE IF IsLead(bs[i])
         THEN ~(i < Len(bs) /\ IsContinuation(bs[i + 1]))
    ELSE IF IsContinuation(bs[i])
         THEN ~(i > 1 /\ IsLead(bs[i - 1]))
    ELSE TRUE

StrayBytes(bs) == {i \in 1..Len(bs) : StrayAt(bs, i)}

\* The byte offset at which char i of the line starts (i up to Len + 1).
RECURSIVE OffsetOf(_, _)
OffsetOf(chars, i) ==
    IF i = 1 THEN 0
    ELSE OffsetOf(chars, i - 1) + (IF chars[i - 1] < 128 THEN 1 ELSE 2)

CharOffsets(chars) == {OffsetOf(chars, i) : i \in 1..(Len(chars) + 1)}

\* Both ends of the range lie between chars of the line, or past its end.
Aligned(chars, r) ==
    /\ Min(r.start, Len(BytesOf(chars))) \in CharOffsets(chars)
    /\ Min(r.end, Len(BytesOf(chars))) \in CharOffsets(chars)

\* The chars of the line that lie wholly inside the byte range r.
CharsWithin(chars, r) ==
    LET inside == {i \in 1..Len(chars) :
                     /\ r.start <= OffsetOf(chars, i)
                     /\ OffsetOf(chars, i + 1) <= r.end}
    IN  SelectSeq([i \in 1..Len(chars) |-> IF i \in inside THEN chars[i] ELSE 0],
                  LAMBDA c : c # 0)

RECURSIVE WholeChars(_, _)
WholeChars(chars, positions) ==
    IF positions = <<>> THEN <<>>
    ELSE CharsWithin(chars, Head(positions))
         \o WholeChars(chars, Tail(positions))

\* C20: extract_bytes always returns a string.  The selected bytes are
\* decoded lossily: every selected byte that is not part of a complete
\* sequence becomes one replacement char U+FFFD and nothing else does, the
\* first byte of a two-byte char selected alone gives the single char
\* U+FFFD, and a selection whose ranges all cover whole chars gives exactly
\* these chars.
C20_LossyDecodingNeverFails ==
    Extracted("bytes")
    => /\ out \in Seq(0..65535)
       /\ Cardinality({i \in 1..Len(out) : out[i] = 65533})
            = Cardinality(StrayBytes(buf))
       /\ Len(out) = Len(buf)
            - Cardinality({i \in 1..Len(buf) :
                             IsContinuation(buf[i]) /\ ~StrayAt(buf, i)})
       /\ \A i \in 1..Len(out) :
            out[i] # 65533 => \E j \in 1..Len(line) : out[i] = line[j]
       /\ (Len(buf) = 1 /\ IsLead(buf[1])) => out = <<65533>>
       /\ (\A k \in 1..Len(result.v) : Aligned(line, result.v[k]))
            => out = WholeChars(line, result.v)

\* C20 witness: byte 1 of the line U+00E1 "b" was selected alone and came
\* out as the single char U+FFFD.
C20_Witness ==
    /\ Extracted("bytes")
    /\ input = <<"1">>
    /\ line = <<225, 98>>
    /\ buf = <<195>>
    /\ out = <<65533>>

-----------------------------------------------------------------------------
(* Claims about field extraction and about the extractors as a whole.       *)

\* The fields with the delimiter d between them.
JoinedBy(fs, d) ==
    LET pre[i \in 0..Len(fs)] ==
            IF i = 0 THEN <<>>
            ELSE IF i = 1 THEN fs[1]
            ELSE pre[i - 1] \o <<d>> \o fs[i]
    IN  pre[Len(fs)]

\* The event at index i of the log is an output line written with --fields.
FieldOutputAt(i) ==
    /\ config.fields.some
    /\ log[i].ev = "stdout"
    /\ i > 1
    /\ log[i - 1].ev = "read"

\* The output line the claim describes for the line read at index i - 1.
FieldsExpectedAt(i) ==
    JoinedBy(SelectedBy(SplitOn(log[i - 1].text, config.delimiter, <<>>),
                        config.fields.v),
             config.delimiter)

\* C21: with --fields the line is split on the configured delimiter byte,
\* the fields whose 0-based index lies in a range are selected range after
\* range in the order of the list, and the output line is the selected
\* fields, unchanged, with the same delimiter between them.
C21_SelectedFieldsJoinedUnchanged ==
    \A i \in 1..Len(log) :
      FieldOutputAt(i) => log[i].text = FieldsExpectedAt(i)

\* The same for the output lines that hold at least one byte of a field.
FieldsJoinedWhenNotEmpty ==
    \A i \in 1..Len(log) :
      (FieldOutputAt(i) /\ FieldsExpectedAt(i) # <<>>)
        => log[i].text = FieldsExpectedAt(i)

\* The items the extractor of the mode counts positions over.
ItemsOf(m, l) == IF m = "bytes" THEN BytesOf(l) ELSE l

\* The number of positions of range r that exist in a line of n items.
Existing(r, n) ==
    IF Min(r.end, n) > Min(r.start, n) THEN Min(r.end, n) - Min(r.start, n)
    ELSE 0

RECURSIVE SumExisting(_, _)
SumExisting(positions, n) ==
    IF positions = <<>> THEN 0
    ELSE Existing(Head(positions), n) + SumExisting(Tail(positions), n)

\* C22: in all three modes a range that lies wholly or partly past the end
\* of the line contributes the positions that exist and nothing else: the
\* number of items selected is the number of existing positions of the
\* ranges, every selected item is an item of the line (no padding), an empty
\* line gives empty output, and the output never holds more items than
\* (number of ranges) x (length of the line).  The extractors have no error
\* result.
C22_RangesPastTheEndSelectWhatExists ==
    pc = "extracted"
    => LET items == ItemsOf(mode, line)
       IN  /\ Len(buf) = SumExisting(result.v, Len(items))
           /\ \A i \in 1..Len(buf) : \E j \in 1..Len(items) : buf[i] = items[j]
           /\ Len(buf) <= Len(result.v) * Len(items)
           /\ Len(out) <= Len(buf)
           /\ mode # "bytes" => out = buf
           /\ line = <<>> => (buf = <<>> /\ out = <<>>)

\* C22 witness: the range 2-3 on the two chars "ab" selected "b" alone.
C22_Witness ==
    /\ Extracted("chars")
    /\ input = <<"2", "-", "3">>
    /\ line = <<97, 98>>
    /\ out = <<98>>

\* The event at index i of the log is a line that was read and extracted:
\* the next event is its output line.
ExtractedAt(i) ==
    /\ log[i].ev = "read"
    /\ i < Len(log)
    /\ log[i + 1].ev = "stdout"

-----------------------------------------------------------------------------
(* calr (src/calr/src/lib.rs): parse_year, parse_month, the command line    *)
(* and run.                                                                 *)

\* i32::MAX and i32::MIN.
I32_MAX == 2147483647

I32_MIN == -I32_MAX - 1

\* u32::MAX is 2^32 - 1; TLC's integers are 32-bit, so the model takes the
\* largest of those.  The month values of the model have at most three
\* digits.
U32_MAX == 2147483647

Overflow == [ok |-> FALSE, v |-> 0]

\* One step of the integer parser for a number without '-': checked_mul(10)
\* and checked_add(d).
PosStep(acc, d, max) ==
    IF ~acc.ok THEN acc
    ELSE IF acc.v > max \div 10 THEN Overflow
    ELSE IF acc.v * 10 > max - d THEN Overflow
    ELSE [ok |-> TRUE, v |-> acc.v * 10 + d]

\* One step of the integer parser for a number with '-': checked_mul(10) and
\* checked_sub(d).
NegStep(acc, d, min) ==
    IF ~acc.ok THEN acc
    ELSE IF acc.v < (min \div 10) + (IF min % 10 = 0 THEN 0 ELSE 1)
         THEN Overflow
    ELSE IF acc.v * 10 < min + d THEN Overflow
    ELSE [ok |-> TRUE, v |-> acc.v * 10 - d]

RECURSIVE Accumulate(_, _, _, _, _)
Accumulate(ds, acc, negative, min, max) ==
    IF ds = <<>> THEN acc
    ELSE Accumulate(Tail(ds),
                    IF negative THEN NegStep(acc, DigitVal(Head(ds)), min)
                    ELSE PosStep(acc, DigitVal(Head(ds)), max),
                    negative, min, max)

\* str::parse for an integer type with the range min..max: the empty string
\* and a sign alone are errors; one leading '+' is a sign, and so is one
\* leading '-' for a signed type; every other char must be a decimal digit;
\* a value outside min..max is an error.
FromStr(s, signed, min, max) ==
    LET negative == s # <<>> /\ Head(s) = "-" /\ signed
        ds == IF s # <<>> /\ (Head(s) = "+" \/ negative) THEN Tail(s) ELSE s
        r  == Accumulate(ds, [ok |-> TRUE, v |-> 0], negative, min, max)
    IN  IF ds = <<>> THEN Err(NoErr)
        ELSE IF \E i \in 1..Len(ds) : ds[i] \notin Digits THEN Err(NoErr)
        ELSE IF ~r.ok THEN Err(NoErr)
        ELSE Ok(r.v)

\* val.parse::<i32>()
ParseI32(s) == FromStr(s, TRUE, I32_MIN, I32_MAX)

\* val.parse::<u32>()
ParseU32(s) == FromStr(s, FALSE, 0, U32_MAX)

\* format!("year '{}' not in the range 1 through 9999", val)
format_year_err(val) ==
    [kind |-> "year not in the range 1 through 9999", val |-> val,
     from |-> 0, to |-> 0]

\* format!("month '{}' not in the range 1 through 12", val)
format_month_err(val) ==
    [kind |-> "month not in the range 1 through 12", val |-> val,
     from |-> 0, to |-> 0]

\* parse_year: Ok(val) if (1..9999).contains(&val), a range that ends before
\* 9999.
parse_year(val) ==
    LET r == ParseI32(val)
    IN  IF r.ok /\ 1 <= r.v /\ r.v < 9999 THEN Ok(r.v)
        ELSE Err(format_year_err(val))

MONTH_NAMES ==
    << <<"J", "a", "n", "u", "a", "r", "y">>,
       <<"F", "e", "b", "r", "u", "a", "r", "y">>,
       <<"M", "a", "r", "c", "h">>,
       <<"A", "p", "r", "i", "l">>,
       <<"M", "a", "y">>,
       <<"J", "u", "n", "e">>,
       <<"J", "u", "l", "y">>,
       <<"A", "u", "g", "u", "s", "t">>,
       <<"S", "e", "p", "t", "e", "m", "b", "e", "r">>,
       <<"O", "c", "t", "o", "b", "e", "r">>,
       <<"N", "o", "v", "e", "m", "b", "e", "r">>,
       <<"D", "e", "c", "e", "m", "b", "e", "r">> >>

\* char::to_lowercase for the chars of the model.
LowerChar(c) ==
    CASE c = "A" -> "a"
      [] c = "D" -> "d"
      [] c = "F" -> "f"
      [] c = "J" -> "j"
      [] c = "M" -> "m"
      [] c = "N" -> "n"
      [] c = "O" -> "o"
      [] c = "S" -> "s"
      [] OTHER -> c

to_lowercase(s) == [i \in 1..Len(s) |-> LowerChar(s[i])]

starts_with(s, prefix) ==
    /\ Len(prefix) <= Len(s)
    /\ SubSeq(s, 1, Len(prefix)) = prefix

\* parse_month: a number from 1 to 12, or else the first month whose
\* lower-cased name starts with the lower-cased value.
parse_month(val) ==
    LET r == ParseU32(val)
        lower == to_lowercase(val)
        found == {i \in 1..12 : starts_with(to_lowercase(MONTH_NAMES[i]), lower)}
    IN  IF r.ok /\ 1 <= r.v /\ r.v <= 12 THEN Ok(r.v)
        ELSE IF found # {}
             THEN Ok(CHOOSE i \in found : \A j \in found : i <= j)
        ELSE Err(format_month_err(val))

\* The characters of the year values, and their greatest length.
YearAlphabet == {"0", "1", "9", "+", "-", "a"}

MaxYearLen == 5

YearInputs == StringsUpTo(YearAlphabet, MaxYearLen)

InitYear ==
    /\ input \in YearInputs
    /\ pc = "year"
    /\ rest = <<>>
    /\ parsed = <<>>
    /\ result = NoResult
    /\ mode = "none"
    /\ line = <<>>
    /\ out = <<>>
    /\ buf = <<>>
    /\ RunIdle

\* clap hands the YEAR argument to value_parser = parse_year.
ParseYear ==
    /\ pc = "year"
    /\ pc' = "year done"
    /\ result' = parse_year(input)
    /\ UNCHANGED <<input, rest, parsed, mode, line, out, buf>>
    /\ UNCHANGED runVars

NextYear == ParseYear

SpecYear == InitYear /\ [][NextYear]_vars

-----------------------------------------------------------------------------
(* Claims about calr.                                                       *)

\* A decimal integer: an optional sign and one or more digits.
IsDecimalInteger(s) ==
    LET ds == IF s # <<>> /\ Head(s) \in {"+", "-"} THEN Tail(s) ELSE s
    IN  ds # <<>> /\ \A i \in 1..Len(ds) : ds[i] \in Digits

\* The integer a decimal integer denotes.
IntegerOf(s) ==
    IF Head(s) = "-" THEN 0 - Numeral(Tail(s))
    ELSE IF Head(s) = "+" THEN Numeral(Tail(s))
    ELSE Numeral(s)

\* The value is a year the claim accepts.
YearInRange(s) ==
    IsDecimalInteger(s) /\ 1 <= IntegerOf(s) /\ IntegerOf(s) <= 9999

\* C24: parse_year accepts exactly the decimal integers from 1 through 9999,
\* both ends included, and returns the integer; every other value is
\* rejected with the error "year '<value>' not in the range 1 through 9999"
\* citing the value.
C24_YearsOneThrough9999 ==
    pc = "year done"
    => IF YearInRange(input)
       THEN result.ok /\ result.v = IntegerOf(input)
       ELSE ~result.ok /\ result.err = format_year_err(input)

\* The same with the year 9999 left aside.
YearsBelow9999 ==
    (pc = "year done" /\ ~(YearInRange(input) /\ IntegerOf(input) = 9999))
    => IF YearInRange(input)
       THEN result.ok /\ result.v = IntegerOf(input)
       ELSE ~result.ok /\ result.err = format_year_err(input)

-----------------------------------------------------------------------------
(* calr: get_args and run.                                                  *)

\* The decimal digits of a number n >= 0 (i32::to_string).
RECURSIVE DecimalOf(_)
DecimalOf(n) ==
    LET d == <<"0", "1", "2", "3", "4", "5", "6", "7", "8", "9">>[(n % 10) + 1]
    IN  IF n < 10 THEN <<d>> ELSE Append(DecimalOf(n \div 10), d)

\* NaiveDate
Date(y, m, d) == [year |-> y, month |-> m, day |-> d]

\* The order of NaiveDate.
DateLeq(a, b) ==
    \/ a.year < b.year
    \/ a.year = b.year /\ a.month < b.month
    \/ a.year = b.year /\ a.month = b.month /\ a.day <= b.day

IsLeapYear(y) == (y % 4 = 0 /\ y % 100 # 0) \/ y % 400 = 0

\* The number of days of a month of the proleptic Gregorian calendar.
DaysInMonth(y, m) ==
    IF m = 2 THEN (IF IsLeapYear(y) THEN 29 ELSE 28)
    ELSE IF m \in {4, 6, 9, 11} THEN 30
    ELSE 31

\* NaiveDate::from_ymd_opt(y, m, 1).weekday().num_days_from_sunday() in the
\* proleptic Gregorian calendar, for y >= 1.
num_days_from_sunday(y, m) ==
    LET a  == (14 - m) \div 12
        yy == y - a
        mm == m + 12 * a - 2
    IN  (1 + yy + (yy \div 4) - (yy \div 100) + (yy \div 400)
           + ((31 * mm) \div 12)) % 7

\* last_day_in_month: the day before the first day of the next month.
last_day_in_month(y, m) == Date(y, m, DaysInMonth(y, m))

\* A cell of the grid: a day number (0: blank) and whether it is painted in
\* reverse.
Cell(day, reverse) == [day |-> day, reverse |-> reverse]

\* The number of cells of the grid: vec!["  ".to_string(); 42].
GridCells == 42

\* format_days: the cell index of each day of the month is
\* day + first_row_padding_days - 1; panics is TRUE when an index is outside
\* the grid.
format_days(year, month, today) ==
    LET first   == Date(year, month, 1)
        padding == num_days_from_sunday(year, month)
        last    == last_day_in_month(year, month)
        ndays   == last.day
        hl(day) == /\ day = today.day
                   /\ DateLeq(first, today)
                   /\ DateLeq(today, last)
    IN  [panics |-> \E day \in 1..ndays : day + padding - 1 >= GridCells,
         cells  |-> [i \in 1..GridCells |->
                       IF i - padding \in 1..ndays
                       THEN Cell(i - padding, hl(i - padding))
                       ELSE Cell(0, FALSE)]]

\* format_month_header: MONTH_NAMES.get(month as usize - 1).unwrap(); the
\* year is part of the header when print_year is set.
format_month_header(year, month, print_year) ==
    [panics |-> month - 1 \notin 0..11,
     name   |-> IF month \in 1..12 THEN MONTH_NAMES[month] ELSE <<>>,
     year   |-> IF print_year THEN year ELSE 0]

\* The values given as YEAR, and their greatest length.
CalYearDigits == {"0", "1", "2", "9"}

MaxCalYearLen == 4

CalYearArgs == StringsUpTo(CalYearDigits, MaxCalYearLen)

\* The values given to -m.
MonthArgs ==
    { <<"1">>, <<"2">>, <<"1", "2">>, <<"0">>, <<"1", "3">>,
      <<"j", "a", "n">>, <<"M", "a">>, <<"f", "o", "o">>, <<>> }

\* The dates the clock may show.
Todays == { Date(2021, 4, 7), Date(2020, 12, 31), Date(2024, 2, 29) }

\* NaiveDate::default(), the value of the skipped field today.
DefaultDate == Date(1970, 1, 1)

\* The command line, and the date the clock shows during the run.
CalCommandLines ==
    [year  : OptionChoices(CalYearArgs),
     month : OptionChoices(MonthArgs),
     show  : BOOLEAN,
     clock : Todays]

NoCalConfig ==
    [year |-> 0, month |-> None, show_current_year |-> FALSE,
     today |-> DefaultDate, error |-> "none"]

\* Config::parse(): YEAR (or the current year, written out) goes through
\* parse_year, -m through parse_month, and -y conflicts with both.
ParseCalConfig(c, now) ==
    LET year  == parse_year(IF c.year.given THEN c.year.val
                            ELSE DecimalOf(now.year))
        month == IF c.month.given THEN parse_month(c.month.val) ELSE Ok(0)
    IN  [year  |-> IF year.ok THEN year.v ELSE 0,
         month |-> IF c.month.given /\ month.ok THEN Some(month.v) ELSE None,
         show_current_year |-> c.show,
         today |-> DefaultDate,
         error |-> IF ~year.ok \/ ~month.ok THEN "invalid value"
                   ELSE IF c.show /\ (c.year.given \/ c.month.given)
                        THEN "conflict"
                   ELSE "none"]

InitCal ==
    /\ cli \in CalCommandLines
    /\ pc = "cal cli"
    /\ config = NoCalConfig
    /\ fileIdx = 0
    /\ nread = 0
    /\ nfields = 0
    /\ log = <<>>
    /\ input = <<>>
    /\ rest = <<>>
    /\ parsed = <<>>
    /\ result = NoResult
    /\ mode = "none"
    /\ line = <<>>
    /\ out = <<>>
    /\ buf = <<>>

\* get_args: Config::parse() ends the process with a usage error or returns
\* the Config.
CalGetArgs ==
    /\ pc = "cal cli"
    /\ config' = ParseCalConfig(cli, cli.clock)
    /\ pc' = IF ParseCalConfig(cli, cli.clock).error = "none"
             THEN "cal run" ELSE "cal usage error"
    /\ UNCHANGED <<cli, fileIdx, nread, nfields, log>>
    /\ UNCHANGED parseVars

\* run: today is read from the clock, config.month.unwrap() panics when no
\* month was given, then the header and the days are formatted and the
\* eight rows are printed.
CalRun ==
    /\ pc = "cal run"
    /\ LET cfg    == [config EXCEPT !.today = cli.clock]
           header == format_month_header(cfg.year, cfg.month.v,
                                         cfg.show_current_year)
           days   == format_days(cfg.year, cfg.month.v, cfg.today)
       IN  /\ config' = cfg
           /\ IF ~cfg.month.some
              THEN /\ pc' = "cal panic"
                   /\ UNCHANGED <<out, log>>
              ELSE IF header.panics \/ days.panics
              THEN /\ pc' = "cal panic"
                   /\ UNCHANGED <<out, log>>
              ELSE /\ pc' = "cal ok"
                   /\ out' = days.cells
                   /\ log' = <<header>>
    /\ UNCHANGED <<cli, fileIdx, nread, nfields>>
    /\ UNCHANGED <<input, rest, parsed, result, mode, line, buf>>

NextCal == CalGetArgs \/ CalRun

SpecCal == InitCal /\ [][NextCal]_vars

\* The arguments were accepted and run was called.
CalAccepted == pc \in {"cal run", "cal ok", "cal panic"}

\* C30: for every configuration the argument parser accepts, the one with no
\* month option included, run ends with success and a printed calendar and
\* never panics: the month is there to unwrap, the month name is found, and
\* every day d of the month lies in cell d + padding - 1 < 42.
C30_RunNeverPanics ==
    /\ pc # "cal panic"
    /\ pc = "cal ok" =>
         /\ Len(out) = GridCells
         /\ \A d \in 1..DaysInMonth(config.year, config.month.v) :
              \E i \in 1..GridCells : out[i].day = d

\* The same for the configurations in which a month is given.
RunWithMonthNeverPanics ==
    (CalAccepted /\ config.month.some)
    => /\ pc # "cal panic"
       /\ pc = "cal ok" =>
            /\ Len(out) = GridCells
            /\ \A d \in 1..DaysInMonth(config.year, config.month.v) :
                 \E i \in 1..GridCells : out[i].day = d

-----------------------------------------------------------------------------
(* tailr (src/tailr/src/lib.rs): parse_num and get_start_index.             *)

\* i64::MAX and i64::MIN.  TLC's integers are 32-bit, so the model's i64 is
\* a two's-complement integer of eight bits; parse_num and get_start_index
\* only parse, compare, negate, add and subtract one, and they are checked
\* for every value of this type and at both of its ends.
I64_MAX == 127

I64_MIN == -I64_MAX - 1

I64 == I64_MIN..I64_MAX

\* enum TakeValue
PlusZero == [kind |-> "PlusZero", n |-> 0]

TakeNum(n) == [kind |-> "TakeNum", n |-> n]

\* val.parse::<i64>()
ParseI64(s) == FromStr(s, TRUE, I64_MIN, I64_MAX)

\* An i64 result of arithmetic: the value when it fits, and else an overflow
\* (a panic or a wrapped value, as the build has it).
Checked(x) ==
    IF x \in I64 THEN [overflow |-> FALSE, v |-> x]
    ELSE [overflow |-> TRUE, v |-> ((x - I64_MIN) % (2 * (I64_MAX + 1))) + I64_MIN]

\* parse_num without the arm that negates an unsigned number.
parse_num_keeping_sign(val) ==
    LET r    == ParseI64(val)
        plus == val # <<>> /\ Head(val) = "+"
    IN  IF r.ok /\ r.v = 0 /\ plus
        THEN [ok |-> TRUE, v |-> PlusZero, err |-> <<>>, overflow |-> FALSE]
        ELSE IF r.ok
        THEN [ok |-> TRUE, v |-> TakeNum(r.v), err |-> <<>>, overflow |-> FALSE]
        ELSE [ok |-> FALSE, v |-> PlusZero, err |-> val, overflow |-> FALSE]

\* parse_num: the match on (val.parse::<i64>(), val.starts_with('+')); the
\* error is the value itself.
parse_num(val) ==
    LET r    == ParseI64(val)
        plus == val # <<>> /\ Head(val) = "+"
    IN  IF r.ok /\ r.v = 0 /\ plus
        THEN [ok |-> TRUE, v |-> PlusZero, err |-> <<>>, overflow |-> FALSE]
        ELSE IF r.ok /\ plus
        THEN [ok |-> TRUE, v |-> TakeNum(r.v), err |-> <<>>, overflow |-> FALSE]
        ELSE IF r.ok /\ r.v > 0
        THEN [ok |-> TRUE, v |-> TakeNum(Checked(0 - r.v).v), err |-> <<>>,
              overflow |-> Checked(0 - r.v).overflow]
        ELSE IF r.ok
        THEN [ok |-> TRUE, v |-> TakeNum(r.v), err |-> <<>>, overflow |-> FALSE]
        ELSE [ok |-> FALSE, v |-> PlusZero, err |-> val, overflow |-> FALSE]

\* Option<u64>
NoIndex == [some |-> FALSE, v |-> 0, overflow |-> FALSE]

SomeIndex(c) ==
    [some |-> TRUE,
     v |-> IF c.v >= 0 THEN c.v ELSE c.v + 2 * (I64_MAX + 1),
     overflow |-> c.overflow]

\* get_start_index without the arm for a take greater than the total.
get_start_index_unguarded(take_val, total) ==
    IF total = 0 THEN NoIndex
    ELSE IF take_val = PlusZero THEN SomeIndex(Checked(0))
    ELSE IF take_val.n = 0 THEN NoIndex
    ELSE IF take_val.n > 0 THEN SomeIndex(Checked(take_val.n - 1))
    ELSE IF Checked(take_val.n + total).overflow
            \/ Checked(take_val.n + total).v < 0
         THEN [SomeIndex(Checked(0)) EXCEPT
                 !.overflow = Checked(take_val.n + total).overflow]
    ELSE SomeIndex(Checked(take_val.n + total))

\* get_start_index: the arms of the match in their order; `as u64` of a
\* negative number is that number plus 2^64 (here 2^8).
get_start_index(take_val, total) ==
    IF total = 0 THEN NoIndex
    ELSE IF take_val = PlusZero THEN SomeIndex(Checked(0))
    ELSE IF take_val.n = 0 THEN NoIndex
    ELSE IF take_val.n > total THEN NoIndex
    ELSE IF take_val.n > 0 THEN SomeIndex(Checked(take_val.n - 1))
    ELSE IF Checked(take_val.n + total).overflow
            \/ Checked(take_val.n + total).v < 0
         THEN [SomeIndex(Checked(0)) EXCEPT
                 !.overflow = Checked(take_val.n + total).overflow]
    ELSE SomeIndex(Checked(take_val.n + total))

\* The characters of the values given to -n and -c, and their greatest
\* length.
NumAlphabet == {"0", "1", "2", "3", "7", "8", "+", "-", ".", "f"}

MaxNumLen == 4

NumInputs == StringsUpTo(NumAlphabet, MaxNumLen)

InitNum ==
    /\ input \in NumInputs
    /\ pc = "num"
    /\ rest = <<>>
    /\ parsed = <<>>
    /\ result = NoResult
    /\ mode = "none"
    /\ line = <<>>
    /\ out = <<>>
    /\ buf = <<>>
    /\ RunIdle

\* clap hands the value of -n or -c to value_parser = parse_num.
ParseNum ==
    /\ pc = "num"
    /\ pc' = "num done"
    /\ result' = parse_num(input)
    /\ UNCHANGED <<input, rest, parsed, mode, line, out, buf>>
    /\ UNCHANGED runVars

NextNum == ParseNum

SpecNum == InitNum /\ [][NextNum]_vars

\* Every take value, and every total of lines or bytes of a file.
TakeValues == {PlusZero} \cup {TakeNum(n) : n \in I64}

Totals == 0..I64_MAX

\* input holds the take value, nread the total.
InitStart ==
    /\ input \in TakeValues
    /\ nread \in Totals
    /\ pc = "start"
    /\ rest = <<>>
    /\ parsed = <<>>
    /\ result = NoResult
    /\ mode = "none"
    /\ line = <<>>
    /\ out = <<>>
    /\ buf = <<>>
    /\ cli = NoCli
    /\ config = NoConfig
    /\ fileIdx = 0
    /\ nfields = 0
    /\ log = <<>>

\* print_lines and print_bytes: get_start_index(take, total).
GetStartIndex ==
    /\ pc = "start"
    /\ pc' = "start done"
    /\ result' = get_start_index(input, nread)
    /\ UNCHANGED <<input, rest, parsed, mode, line, out, buf>>
    /\ UNCHANGED runVars

NextStart == GetStartIndex

SpecStart == InitStart /\ [][NextStart]_vars

-----------------------------------------------------------------------------
(* Claims about tailr.                                                      *)

Max(a, b) == IF a >= b THEN a ELSE b

\* C25: for every take value and every total >= 0, get_start_index gives
\* None when the total is 0, when the take value is 0, or when a positive
\* take exceeds the total; Some(0) for +0; Some(k - 1) for a positive take
\* k <= total; Some(max(0, total + k)) for a negative take k; a result
\* Some(s) has 0 <= s < total; and no arithmetic overflows.
C25_StartIndexByCases ==
    pc = "start done"
    => LET take  == input
           total == nread
           k     == take.n
       IN  /\ ~result.overflow
           /\ IF total = 0 THEN ~result.some
              ELSE IF take = PlusZero THEN result.some /\ result.v = 0
              ELSE IF k = 0 THEN ~result.some
              ELSE IF k > 0 /\ k > total THEN ~result.some
              ELSE IF k > 0 THEN result.some /\ result.v = k - 1
              ELSE result.some /\ result.v = Max(0, total + k)
           /\ result.some => (0 <= result.v /\ result.v < total)

\* C25 witness: a negative take that reaches before the start of a file of
\* ten lines gave Some(0).
C25_Witness ==
    /\ pc = "start done"
    /\ input = TakeNum(-20)
    /\ nread = 10
    /\ result.some
    /\ result.v = 0

\* C26: parse_num accepts a string exactly when it parses as an i64.  With a
\* leading '+' the value stays positive and +0 is PlusZero; an unsigned
\* positive n becomes -n; a negative value and 0 stay as they are; at the
\* ends of the type, i64::MAX unsigned becomes i64::MIN + 1, '+' i64::MAX
\* stays i64::MAX and i64::MIN stays i64::MIN, with no overflow; every other
\* string is rejected with an error equal to the string.
C26_ParseNumBySign ==
    pc = "num done"
    => /\ ~result.overflow
       /\ IF IsDecimalInteger(input) /\ IntegerOf(input) \in I64
          THEN /\ result.ok
               /\ result.v =
                    (IF Head(input) = "+"
                     THEN (IF IntegerOf(input) = 0 THEN PlusZero
                           ELSE TakeNum(IntegerOf(input)))
                     ELSE IF Head(input) = "-" THEN TakeNum(IntegerOf(input))
                     ELSE TakeNum(0 - IntegerOf(input)))
          ELSE ~result.ok /\ result.err = input
       /\ input = DecimalOf(I64_MAX) => result.v = TakeNum(I64_MIN + 1)
       /\ input = <<"+">> \o DecimalOf(I64_MAX) => result.v = TakeNum(I64_MAX)
       /\ input = <<"-">> \o DecimalOf(I64_MAX) => result.v = TakeNum(I64_MIN + 1)
       /\ input = <<"-">> \o DecimalOf(I64_MAX + 1) => result.v = TakeNum(I64_MIN)

\* C26 witness: the greatest i64, written without a sign, became
\* i64::MIN + 1.
C26_Witness ==
    /\ pc = "num done"
    /\ input = DecimalOf(I64_MAX)
    /\ result.ok
    /\ result.v = TakeNum(I64_MIN + 1)

-----------------------------------------------------------------------------
(* grepr (src/grepr/src/lib.rs): find_files.                                *)

\* An entry that WalkDir yields: a path with its kind, or an error.
WalkEntry(name, kind) == [name |-> name, kind |-> kind]

\* The paths of the file system of the model: two regular files, a name that
\* does not exist, a directory with a file, a directory and a file in it, an
\* empty directory, and a directory with an entry that cannot be read.  walk
\* is what WalkDir::new(path) yields, the directory itself first.
FsPaths ==
    { [name |-> "fox.txt", kind |-> "file", walk |-> <<>>],
      [name |-> "empty.txt", kind |-> "file", walk |-> <<>>],
      [name |-> "blargh", kind |-> "missing", walk |-> <<>>],
      [name |-> "inputs", kind |-> "dir",
       walk |-> << WalkEntry("inputs", "dir"),
                   WalkEntry("inputs/bustle.txt", "file"),
                   WalkEntry("inputs/sub", "dir"),
                   WalkEntry("inputs/sub/nobody.txt", "file") >>],
      [name |-> "void", kind |-> "dir",
       walk |-> << WalkEntry("void", "dir") >>],
      [name |-> "locked", kind |-> "dir",
       walk |-> << WalkEntry("locked", "dir"),
                   WalkEntry("locked/secret", "error") >>] }

MaxPaths == 2

PathLists == StringsUpTo(FsPaths, MaxPaths)

\* The errors of find_files.
PathErr(kind, name) == [kind |-> kind, val |-> name, from |-> 0, to |-> 0]

\* The entries pushed for the entries of a walk.
RECURSIVE WalkResults(_)
WalkResults(walk) ==
    IF walk = <<>> THEN <<>>
    ELSE (IF Head(walk).kind = "error"
          THEN << Err(PathErr("walkdir error", "")) >>
          ELSE IF Head(walk).kind = "file"
          THEN << Ok(Head(walk).name) >>
          ELSE <<>>)
         \o WalkResults(Tail(walk))

\* The body of the closure of find_files for one path.
FindPath(p, recursive) ==
    IF p.kind = "missing"
    THEN << Err(PathErr("Path does not exist", p.name)) >>
    ELSE IF recursive
    THEN (IF p.kind = "dir" THEN WalkResults(p.walk)
          ELSE << Err(PathErr("is a directory", p.name)) >>)
    ELSE IF p.kind = "file" THEN << Ok(p.name) >>
    ELSE << Err(PathErr("is a directory", p.name)) >>

\* find_files: paths.iter().for_each(...) pushing to result.
RECURSIVE find_files(_, _)
find_files(paths, recursive) ==
    IF paths = <<>> THEN <<>>
    ELSE FindPath(Head(paths), recursive)
         \o find_files(Tail(paths), recursive)

\* input holds the paths, mode the recursive flag.
InitFind ==
    /\ input \in PathLists
    /\ mode \in {"recursive", "not recursive"}
    /\ pc = "find"
    /\ rest = <<>>
    /\ parsed = <<>>
    /\ result = NoResult
    /\ line = <<>>
    /\ out = <<>>
    /\ buf = <<>>
    /\ RunIdle

\* run: let entries = find_files(&config.files, config.recursive)
FindFiles ==
    /\ pc = "find"
    /\ pc' = "find done"
    /\ out' = find_files(input, mode = "recursive")
    /\ UNCHANGED <<input, rest, parsed, result, mode, line, buf>>
    /\ UNCHANGED runVars

NextFind == FindFiles

SpecFind == InitFind /\ [][NextFind]_vars

-----------------------------------------------------------------------------
(* Claims about grepr.                                                      *)

\* The regular files beneath a directory, in the order of the walk, and an
\* error entry for what the walk could not read.
Beneath(p) ==
    [i \in 1..Len(SelectSeq(p.walk, LAMBDA e : e.kind \in {"file", "error"}))
       |-> LET e == SelectSeq(p.walk,
                              LAMBDA x : x.kind \in {"file", "error"})[i]
           IN  IF e.kind = "file" THEN Ok(e.name)
               ELSE Err(PathErr("walkdir error", ""))]

\* The entries the claim describes for one path.
ClaimedEntries(p, recursive) ==
    IF p.kind = "file" THEN << Ok(p.name) >>
    ELSE IF p.kind = "missing"
    THEN << Err(PathErr("Path does not exist", p.name)) >>
    ELSE IF ~recursive THEN << Err(PathErr("is a directory", p.name)) >>
    ELSE Beneath(p)

ClaimedList(paths, recursive) ==
    LET pre[i \in 0..Len(paths)] ==
            IF i = 0 THEN <<>>
            ELSE pre[i - 1] \o ClaimedEntries(paths[i], recursive)
    IN  pre[Len(paths)]

\* C27: for both values of the recursive flag a path that names a regular
\* file gives an Ok entry with that path and a path that does not exist
\* gives an Err entry; a directory gives the error "<path> is a directory"
\* when recursive is off and the regular files beneath it when recursive is
\* on; the entries follow the order of the paths.
C27_FindFilesByKindOfPath ==
    pc = "find done" => out = ClaimedList(input, mode = "recursive")

\* The same for the calls in which recursive is off or no path names a
\* regular file.
FindFilesWithoutFileUnderRecursive ==
    ( /\ pc = "find done"
      /\ \/ mode = "not recursive"
         \/ \A i \in 1..Len(input) : input[i].kind # "file" )
    => out = ClaimedList(input, mode = "recursive")

-----------------------------------------------------------------------------
(* commr (src/commr/src/lib.rs): run.                                       *)
(* A line is a sequence of code points; input holds the lines of the two    *)
(* files, rest the two iterators, line the pair (line1, line2), log the     *)
(* classifications and out the printed lines.                               *)

\* char::to_lowercase for the letters of the model.
LowerCodePoint(c) == IF c >= 65 /\ c <= 90 THEN c + 32 ELSE c

\* case: line.to_lowercase() when insensitive.
case(l, insensitive) ==
    IF insensitive THEN [i \in 1..Len(l) |-> LowerCodePoint(l[i])] ELSE l

\* A comparison that looks at the lengths only.
cmp_by_length(a, b) ==
    IF Len(a) < Len(b) THEN "Less"
    ELSE IF Len(a) > Len(b) THEN "Greater"
    ELSE "Equal"

\* String::cmp: lexicographic by bytes, which for UTF-8 is the order of the
\* code points.
RECURSIVE cmp(_, _)
cmp(a, b) ==
    IF a = <<>> /\ b = <<>> THEN "Equal"
    ELSE IF a = <<>> THEN "Less"
    ELSE IF b = <<>> THEN "Greater"
    ELSE IF Head(a) < Head(b) THEN "Less"
    ELSE IF Head(a) > Head(b) THEN "Greater"
    ELSE cmp(Tail(a), Tail(b))

\* format_line: the value after pos delimiters.
format_line(val, pos, delimiter) ==
    IF pos = 0 THEN << val >>
    ELSE IF pos = 1 THEN << delimiter \o val >>
    ELSE << delimiter \o delimiter \o val >>

\* print: the lines written for a value of a column.
print(val, col, c) ==
    CASE c.show_col1 /\ col = "File1" -> format_line(val, 0, c.delimiter)
      [] ~c.show_col1 /\ c.show_col2 /\ col = "File2"
            -> format_line(val, 0, c.delimiter)
      [] c.show_col1 /\ c.show_col2 /\ col = "File2"
            -> format_line(val, 1, c.delimiter)
      [] ~c.show_col1 /\ ~c.show_col2 /\ c.show_col3 /\ col = "Both"
            -> format_line(val, 0, c.delimiter)
      [] c.show_col1 /\ ~c.show_col2 /\ c.show_col3 /\ col = "Both"
            -> format_line(val, 1, c.delimiter)
      [] ~c.show_col1 /\ c.show_col2 /\ c.show_col3 /\ col = "Both"
            -> format_line(val, 1, c.delimiter)
      [] c.show_col1 /\ c.show_col2 /\ c.show_col3 /\ col = "Both"
            -> format_line(val, 2, c.delimiter)
      [] OTHER -> <<>>

\* Iterator::next: the item and the iterator after it.
IterNext(it) ==
    IF it = <<>> THEN [item |-> None, it |-> <<>>]
    ELSE [item |-> Some(Head(it)), it |-> Tail(it)]

\* The iterator of a file: lines().map_while(Result::ok).map(case).
CasedLines(ls, insensitive) ==
    [i \in 1..Len(ls) |-> case(ls[i], insensitive)]

MaxCommLines == 2

\* The lines of the files of the model: a, B and b.
CommLineValues == { <<97>>, <<66>>, <<98>> }

CommFiles == StringsUpTo(CommLineValues, MaxCommLines)

\* The columns shown: all, and -1, -2, -123.
ShowChoices ==
    { <<TRUE, TRUE, TRUE>>, <<FALSE, TRUE, TRUE>>, <<TRUE, FALSE, TRUE>>,
      <<FALSE, FALSE, FALSE>> }

\* default_value = "\t"
DefaultOutputDelimiter == <<9>>

CommConfigs ==
    { [file1 |-> n[1], file2 |-> n[2],
       show_col1 |-> s[1], show_col2 |-> s[2], show_col3 |-> s[3],
       insensitive |-> i, delimiter |-> DefaultOutputDelimiter] :
      n \in { <<"file1.txt", "file2.txt">>, <<"-", "file2.txt">>,
              <<"-", "-">> },
      s \in ShowChoices, i \in BOOLEAN }

InitComm ==
    /\ input \in CommFiles \X CommFiles
    /\ cli \in CommConfigs
    /\ pc = "comm"
    /\ rest = << <<>>, <<>> >>
    /\ line = << None, None >>
    /\ parsed = <<>>
    /\ result = NoResult
    /\ mode = "comm"
    /\ out = <<>>
    /\ buf = <<>>
    /\ config = NoConfig
    /\ fileIdx = 0
    /\ nread = 0
    /\ nfields = 0
    /\ log = <<>>

CommUnchanged == UNCHANGED <<input, parsed, result, mode, buf, cli, config,
                             fileIdx, nread, nfields>>

\* run: both files are "-".
CommBothStdin ==
    /\ pc = "comm"
    /\ cli.file1 = "-" /\ cli.file2 = "-"
    /\ pc' = "comm failed"
    /\ UNCHANGED <<rest, line, out, log>>
    /\ CommUnchanged

\* run: open(file1)? or open(file2)? fails.
CommOpenFails ==
    /\ pc = "comm"
    /\ ~(cli.file1 = "-" /\ cli.file2 = "-")
    /\ pc' = "comm failed"
    /\ UNCHANGED <<rest, line, out, log>>
    /\ CommUnchanged

\* run: both files open; the iterators are built and the first line of each
\* is taken.
CommOpen ==
    /\ pc = "comm"
    /\ ~(cli.file1 = "-" /\ cli.file2 = "-")
    /\ LET n1 == IterNext(CasedLines(input[1], cli.insensitive))
           n2 == IterNext(CasedLines(input[2], cli.insensitive))
       IN  /\ line' = << n1.item, n2.item >>
           /\ rest' = << n1.it, n2.it >>
    /\ pc' = "comm loop"
    /\ UNCHANGED <<out, log>>
    /\ CommUnchanged

\* The column of an iteration of the loop.
CommColumn(line1, line2) ==
    IF ~line2.some THEN "File1"
    ELSE IF ~line1.some THEN "File2"
    ELSE IF cmp(line1.v, line2.v) = "Equal" THEN "Both"
    ELSE IF cmp(line1.v, line2.v) = "Less" THEN "File1"
    ELSE "File2"

\* One iteration of the while loop.
CommStep ==
    /\ pc = "comm loop"
    /\ line[1].some \/ line[2].some
    /\ LET col == CommColumn(line[1], line[2])
           val == IF col = "File2" THEN line[2].v ELSE line[1].v
           n1  == IF col \in {"File1", "Both"}
                  THEN IterNext(rest[1])
                  ELSE [item |-> line[1], it |-> rest[1]]
           n2  == IF col \in {"File2", "Both"}
                  THEN IterNext(rest[2])
                  ELSE [item |-> line[2], it |-> rest[2]]
       IN  /\ out' = out \o print(val, col, cli)
           /\ log' = Append(log, [col |-> col, val |-> val])
           /\ line' = << n1.item, n2.item >>
           /\ rest' = << n1.it, n2.it >>
    /\ pc' = "comm loop"
    /\ CommUnchanged

\* The loop ends: Ok(()).
CommReturn ==
    /\ pc = "comm loop"
    /\ ~(line[1].some \/ line[2].some)
    /\ pc' = "comm ok"
    /\ UNCHANGED <<rest, line, out, log>>
    /\ CommUnchanged

NextComm ==
    \/ CommBothStdin
    \/ CommOpenFails
    \/ CommOpen
    \/ CommStep
    \/ CommReturn

\* The program runs on: a step that can be taken is taken.
SpecComm == InitComm /\ [][NextComm]_vars /\ WF_vars(NextComm)

-----------------------------------------------------------------------------
(* Claims about commr.                                                      *)

\* The values classified so far that came from file k.
ClassifiedFrom(k) ==
    LET cols == IF k = 1 THEN {"File1", "Both"} ELSE {"File2", "Both"}
        sel  == SelectSeq(log, LAMBDA e : e.col \in cols)
    IN  [i \in 1..Len(sel) |-> sel[i].val]

\* The line of file k that the loop holds, if any.
HeldFrom(k) == IF line[k].some THEN << line[k].v >> ELSE <<>>

\* The lines of file k as the loop sees them.
LinesOf(k) == CasedLines(input[k], cli.insensitive)

\* The number of pairs classified as both.
BothCount == Len(SelectSeq(log, LAMBDA e : e.col = "Both"))

\* The lines not yet classified.
Unclassified ==
    Len(HeldFrom(1)) + Len(rest[1]) + Len(HeldFrom(2)) + Len(rest[2])

\* At every point of the loop the lines of a file are those classified, the
\* one held and those left in the iterator, in this order; at the end all
\* are classified and the count is n1 + n2 - both.
CommConsumedInOrder ==
    /\ pc \in {"comm loop", "comm ok"}
       => \A k \in {1, 2} :
            ClassifiedFrom(k) \o HeldFrom(k) \o rest[k] = LinesOf(k)
    /\ pc = "comm ok"
       => /\ ClassifiedFrom(1) = LinesOf(1)
          /\ ClassifiedFrom(2) = LinesOf(2)
          /\ Len(log) = Len(input[1]) + Len(input[2]) - BothCount

\* An iteration classifies one item, as both exactly when the two current
\* lines are present and equal, and leaves fewer lines unclassified.
CommIteration ==
    (pc = "comm loop" /\ pc' = "comm loop")
    => /\ Len(log') = Len(log) + 1
       /\ SubSeq(log', 1, Len(log)) = log
       /\ (log'[Len(log')].col = "Both")
          <=> (line[1].some /\ line[2].some /\ line[1].v = line[2].v)
       /\ Unclassified' < Unclassified

-----------------------------------------------------------------------------
(* uniqr (src/uniqr/src/lib.rs): run.                                       *)
(* A line is the sequence of code points that read_line gives, terminator   *)
(* included; input holds the lines of the file, rest those not yet read,    *)
(* buf is previous_line, nread is line_count and out the text written.      *)

\* char::is_whitespace for the characters of the model.
IsWhitespace(c) == c \in {9, 10, 11, 12, 13, 32}

\* str::trim_end
RECURSIVE trim_end(_)
trim_end(s) ==
    IF s = <<>> THEN <<>>
    ELSE IF IsWhitespace(s[Len(s)]) THEN trim_end(SubSeq(s, 1, Len(s) - 1))
    ELSE s

\* The decimal digits of a number, as code points.
RECURSIVE DisplayU64(_)
DisplayU64(n) ==
    IF n < 10 THEN << 48 + n >>
    ELSE DisplayU64(n \div 10) \o << 48 + (n % 10) >>

\* Width of the count in "{:>4} {}".
CountWidth == 4

\* {:>4}: the text after the spaces that fill the width.
PadLeft(s) ==
    [i \in 1..(Max(CountWidth, Len(s)) - Len(s)) |-> 32] \o s

\* The closure print of run: nothing for a count of 0.
print_run(count, text, showCount) ==
    IF count > 0
    THEN (IF showCount THEN PadLeft(DisplayU64(count)) \o <<32>> \o text
          ELSE text)
    ELSE <<>>

MaxUniqLines == 3

\* Lines with their terminator: an empty line, a, a with a space after it,
\* and b.
TerminatedLines == { <<10>>, <<97, 10>>, <<97, 32, 10>>, <<98, 10>> }

\* A last line without terminator.
UnterminatedLines == { <<97>> }

\* The files: terminated lines, and possibly a last line without terminator.
UniqFiles ==
    { s \o t : s \in StringsUpTo(TerminatedLines, MaxUniqLines),
               t \in { <<>> } \cup { << u >> : u \in UnterminatedLines } }

\* in_file is "-" or a name; out_file is absent or the name "out".
UniqConfigs ==
    { [in_file |-> f, out_file |-> o, count |-> c] :
      f \in {"-", "in.txt"}, o \in {None, Some(<<111, 117, 116>>)},
      c \in BOOLEAN }

InitUniq ==
    /\ input \in UniqFiles
    /\ cli \in UniqConfigs
    /\ pc = "uniq"
    /\ rest = <<>>
    /\ line = <<>>
    /\ buf = <<>>
    /\ nread = 0
    /\ out = <<>>
    /\ parsed = <<>>
    /\ result = NoResult
    /\ mode = "uniq"
    /\ config = NoConfig
    /\ fileIdx = 0
    /\ nfields = 0
    /\ log = <<>>

UniqUnchanged == UNCHANGED <<input, parsed, result, mode, line, cli, config,
                             fileIdx, nfields, log>>

\* run: open(&config.in_file) fails.
UniqOpenFails ==
    /\ pc = "uniq"
    /\ cli.in_file # "-"
    /\ pc' = "uniq failed"
    /\ UNCHANGED <<rest, buf, nread, out>>
    /\ UniqUnchanged

\* run: File::create(out_name)? fails.
UniqCreateFails ==
    /\ pc = "uniq"
    /\ cli.out_file.some
    /\ pc' = "uniq failed"
    /\ UNCHANGED <<rest, buf, nread, out>>
    /\ UniqUnchanged

\* run: the file is open, the counters are set and the output is ready.
UniqOpen ==
    /\ pc = "uniq"
    /\ pc' = "uniq loop"
    /\ rest' = input
    /\ nread' = 0
    /\ buf' = <<>>
    /\ out' = <<>>
    /\ UniqUnchanged

\* One iteration of the loop: a line is read.
UniqReadLine ==
    /\ pc = "uniq loop"
    /\ rest # <<>>
    /\ LET l == Head(rest)
       IN  IF trim_end(buf) # trim_end(l)
           THEN /\ out' = out \o print_run(nread, buf, cli.count)
                /\ buf' = l
                /\ nread' = 0 + 1
           ELSE /\ out' = out
                /\ buf' = buf
                /\ nread' = nread + 1
    /\ rest' = Tail(rest)
    /\ pc' = "uniq loop"
    /\ UniqUnchanged

\* read_line gives 0: break, the last print, Ok(()).
UniqEnd ==
    /\ pc = "uniq loop"
    /\ rest = <<>>
    /\ out' = out \o print_run(nread, buf, cli.count)
    /\ pc' = "uniq ok"
    /\ UNCHANGED <<rest, buf, nread>>
    /\ UniqUnchanged

NextUniq ==
    \/ UniqOpenFails
    \/ UniqCreateFails
    \/ UniqOpen
    \/ UniqReadLine
    \/ UniqEnd

SpecUniq == InitUniq /\ [][NextUniq]_vars

-----------------------------------------------------------------------------
(* Claims about uniqr.                                                      *)

\* Line i starts a maximal run of lines equal after trim_end.
StartsRun(ls, i) ==
    i = 1 \/ trim_end(ls[i - 1]) # trim_end(ls[i])

\* The length of the run that starts at line i.
RECURSIVE RunLength(_, _)
RunLength(ls, i) ==
    IF i < Len(ls) /\ trim_end(ls[i + 1]) = trim_end(ls[i])
    THEN 1 + RunLength(ls, i + 1)
    ELSE 1

\* For each run its first line, after the length of the run when counts are
\* shown.
RECURSIVE OneLinePerRun(_, _, _)
OneLinePerRun(ls, i, showCount) ==
    IF i > Len(ls) THEN <<>>
    ELSE (IF StartsRun(ls, i)
          THEN (IF showCount
                THEN PadLeft(DisplayU64(RunLength(ls, i))) \o <<32>>
                ELSE <<>>) \o ls[i]
          ELSE <<>>)
         \o OneLinePerRun(ls, i + 1, showCount)

\* The lengths of the runs sum to the number of lines.
RECURSIVE SumRunLengths(_, _)
SumRunLengths(ls, i) ==
    IF i > Len(ls) THEN 0
    ELSE (IF StartsRun(ls, i) THEN RunLength(ls, i) ELSE 0)
         + SumRunLengths(ls, i + 1)

\* C29: for every input the output of run has exactly one line for each
\* maximal run of consecutive lines that are equal after removing trailing
\* whitespace, the first line of the run with its terminator; with --count
\* the number printed is the length of the run, and the counts sum to the
\* number of lines; this includes a run of blank lines at the very start;
\* an empty input gives no output.
C29_OneLinePerRunOfEqualLines ==
    pc = "uniq ok"
    => /\ out = OneLinePerRun(input, 1, cli.count)
       /\ SumRunLengths(input, 1) = Len(input)
       /\ input = <<>> => out = <<>>

\* The same for the inputs that do not start with a blank line.
OneLinePerRunUnlessBlankStart ==
    (pc = "uniq ok" /\ (input = <<>> \/ trim_end(input[1]) # <<>>))
    => /\ out = OneLinePerRun(input, 1, cli.count)
       /\ SumRunLengths(input, 1) = Len(input)
       /\ input = <<>> => out = <<>>

============================================================================
